---- MODULE Spec2Model ----
(***************************************************************************)
(* A model of the aintrade market-data and signal pipeline:                *)
(*   - the reference strategy's decision function (get_signal),            *)
(*   - the supertrend recurrence (_calculate_supertrend),                  *)
(*   - the signal store written by SignalAgent and run_analysis_agent,     *)
(*   - the per-(symbol,timeframe) candle tables written by the historical  *)
(*     backfill and by the websocket relay,                                *)
(*   - the backtest aligner and portfolio simulator (run_backtest).        *)
(*                                                                         *)
(* Floating point values are modelled by integers (prices, indicator       *)
(* values on a fixed scale) or by exact fractions <<num, den>> (portfolio  *)
(* amounts); NaN is a distinguished value that makes every comparison      *)
(* false, as in IEEE arithmetic.                                           *)
(***************************************************************************)
EXTENDS Integers, Sequences, FiniteSets, TLC

VARIABLES
    latest_candles,  \* get_signal's argument: timeframe -> latest indicator row
    decision         \* what get_signal returned for it ("none" before the call)

stratVars == <<latest_candles, decision>>

VARIABLES
    df,              \* a candle series (high, low, close), oldest row first
    st               \* the rows _calculate_supertrend produced for df

trendVars == <<df, st>>

VARIABLES
    signals,         \* the rows of the signals table, in insertion order
    latest_open,     \* symbol -> open_time of the newest stored 15m candle
    cycle,           \* the last evaluation cycle: its agent, the symbols it decided
                     \* a non-HOLD signal for, the number of rows it added
    writers,         \* concurrently running evaluation cycles: agent -> its
                     \* position in the symbol loop and in the store block
    evaluation       \* one evaluation cycle symbol by symbol: its path, the
                     \* agent at work, the stage at which each symbol fails

signalVars == <<signals, latest_open, cycle, writers, evaluation>>

VARIABLES
    symbols,         \* the filtered-symbols table, in query order
    store,           \* <<symbol, timeframe>> -> committed rows of that kline table
    now,             \* open_time of the 15m candle the exchange has open
    bf,              \* run_historical_klines_agent: position, session, page
    relay,           \* the relay's message handler: position, session, last log
    kline_models     \* the relay's cache of kline models, by <<symbol, timeframe>>

candleVars == <<symbols, store, now, bf, relay, kline_models>>

VARIABLES
    kline_data_full, \* run_backtest: timeframe -> rows read and prepared
    starting_capital,
    aligned_df,      \* the aligned frame, once built
    bt,              \* run_backtest: position in the function, portfolio, report
    replay           \* a second run_backtest over the same aligned frame

backtestVars == <<kline_data_full, starting_capital, aligned_df, bt, replay>>

VARIABLES
    conn,            \* _connect_and_stream: where its loop is
    received         \* the form of the last message taken from the socket and
                     \* the parity of the number of messages taken

streamVars == <<conn, received>>

VARIABLES
    agents,          \* AgentOrchestrator.agents: agent_id -> registered agent
    last,            \* the last register_agent / get_agent call and its return
    orch             \* execute_workflow: its steps, position, results, and the
                     \* process calls made so far

orchVars == <<agents, last, orch>>

vars == <<stratVars, trendVars, signalVars, candleVars, backtestVars, streamVars,
          orchVars>>

-----------------------------------------------------------------------------
(* Value encodings *)

\* NaN (an undefined indicator value); outside every value range used below.
NaN == 0 - 9999

\* Python's None in the timeframe and the open_time slot of a decision.
NoneTf == "None"
NoneTime == 0 - 1

\* IEEE comparisons: false as soon as one side is NaN.
Gt(a, b) == a # NaN /\ b # NaN /\ a > b
\* A less-than in which an undefined value orders below every number.
LtTotalOrder(a, b) == a < b
Lt(a, b) == a # NaN /\ b # NaN /\ a < b
Ge(a, b) == a # NaN /\ b # NaN /\ a >= b
Le(a, b) == a # NaN /\ b # NaN /\ a <= b

\* The money-flow column is kept in hundredths: MFTenth is 0.1.
MFTenth == 10

-----------------------------------------------------------------------------
(* EnhancedTrendMasterStrategy *)

StrategyName == "enhanced_trend_master"
Timeframes == {"15m", "1h", "4h"}

\* The BUY block of get_signal: ema_bullish, supertrend_bullish, rsi_ok_buy,
\* volume_ok_buy, vwap_ok_buy, all required.
BuyConditions(latest_4h, latest_1h, latest_15m) ==
    LET ema_bullish ==
            /\ Gt(latest_4h.ema9, latest_4h.ema20) /\ Gt(latest_4h.ema20, latest_4h.ema50)
            /\ Gt(latest_1h.ema9, latest_1h.ema20) /\ Gt(latest_1h.ema20, latest_1h.ema50)
        supertrend_bullish ==
            /\ latest_4h.supertrend_direction = 1
            /\ latest_1h.supertrend_direction = 1
            /\ latest_15m.supertrend_direction = 1
        rsi_ok_buy == Ge(latest_15m.rsi14, 45) /\ Le(latest_15m.rsi14, 65)
        volume_ok_buy == Gt(latest_15m.volume_avg20, MFTenth)
        vwap_ok_buy == Gt(latest_15m.close, latest_15m.vwap_approx)
    IN  ema_bullish /\ supertrend_bullish /\ rsi_ok_buy /\ volume_ok_buy /\ vwap_ok_buy

\* A copy of the BUY block in which only the RSI range was adapted.
SellConditionsCopied(latest_4h, latest_1h, latest_15m) ==
    LET ema_bearish ==
            /\ Gt(latest_4h.ema9, latest_4h.ema20) /\ Gt(latest_4h.ema20, latest_4h.ema50)
            /\ Gt(latest_1h.ema9, latest_1h.ema20) /\ Gt(latest_1h.ema20, latest_1h.ema50)
        supertrend_bearish ==
            /\ latest_4h.supertrend_direction = 1
            /\ latest_1h.supertrend_direction = 1
            /\ latest_15m.supertrend_direction = 1
        rsi_ok_sell == Ge(latest_15m.rsi14, 35) /\ Le(latest_15m.rsi14, 55)
        volume_ok_sell == Gt(latest_15m.volume_avg20, MFTenth)
        vwap_ok_sell == Gt(latest_15m.close, latest_15m.vwap_approx)
    IN  ema_bearish /\ supertrend_bearish /\ rsi_ok_sell /\ volume_ok_sell /\ vwap_ok_sell

\* The SELL block of get_signal.
SellConditions(latest_4h, latest_1h, latest_15m) ==
    LET ema_bearish ==
            /\ Lt(latest_4h.ema9, latest_4h.ema20) /\ Lt(latest_4h.ema20, latest_4h.ema50)
            /\ Lt(latest_1h.ema9, latest_1h.ema20) /\ Lt(latest_1h.ema20, latest_1h.ema50)
        supertrend_bearish ==
            /\ latest_4h.supertrend_direction = -1
            /\ latest_1h.supertrend_direction = -1
            /\ latest_15m.supertrend_direction = -1
        rsi_ok_sell == Ge(latest_15m.rsi14, 35) /\ Le(latest_15m.rsi14, 55)
        volume_ok_sell == Lt(latest_15m.volume_avg20, 0 - MFTenth)
        vwap_ok_sell == Lt(latest_15m.close, latest_15m.vwap_approx)
    IN  ema_bearish /\ supertrend_bearish /\ rsi_ok_sell /\ volume_ok_sell /\ vwap_ok_sell

Decision(s, tf, t) == [signal |-> s, timeframe |-> tf, kline_time |-> t]
Hold == Decision("HOLD", NoneTf, NoneTime)
KeyErrorRaised == Decision("KeyError", NoneTf, NoneTime)

\* get_signal without the try/except around the three lookups.
get_signal_unguarded(lc) ==
    IF ~(Timeframes \subseteq DOMAIN lc) THEN KeyErrorRaised
    ELSE IF BuyConditions(lc["4h"], lc["1h"], lc["15m"])
         THEN Decision("BUY", "15m", lc["15m"].open_time)
    ELSE IF SellConditions(lc["4h"], lc["1h"], lc["15m"])
         THEN Decision("SELL", "15m", lc["15m"].open_time)
    ELSE Hold

\* get_signal that reports the primary (4h) candle's open_time.
get_signal_primary_time(lc) ==
    IF ~(Timeframes \subseteq DOMAIN lc) THEN Hold
    ELSE IF BuyConditions(lc["4h"], lc["1h"], lc["15m"])
         THEN Decision("BUY", "15m", lc["4h"].open_time)
    ELSE IF SellConditions(lc["4h"], lc["1h"], lc["15m"])
         THEN Decision("SELL", "15m", lc["4h"].open_time)
    ELSE Hold

\* get_signal(symbol, latest_candles): a missing timeframe is a KeyError caught
\* into HOLD; BUY is tested first and returns; then SELL; otherwise HOLD.
get_signal(lc) ==
    IF ~(Timeframes \subseteq DOMAIN lc) THEN Hold
    ELSE IF BuyConditions(lc["4h"], lc["1h"], lc["15m"])
         THEN Decision("BUY", "15m", lc["15m"].open_time)
    ELSE IF SellConditions(lc["4h"], lc["1h"], lc["15m"])
         THEN Decision("SELL", "15m", lc["15m"].open_time)
    ELSE Hold

-----------------------------------------------------------------------------
(* _calculate_supertrend *)

\* Rows of the longest series examined.
MaxRows == 10

\* atr_period and multiplier, the defaults prepare_data calls it with.
AtrPeriod == 10
Multiplier == 3

\* Rows examined past the ATR's first window when a series starts with a
\* settled first window.
MaxTail == 3

RECURSIVE Pow10(_)
Pow10(n) == IF n <= 0 THEN 1 ELSE 10 * Pow10(n - 1)

\* Band and ATR values are kept as exact multiples of 1/Scale: the midpoint
\* halves, and each ATR step past the first window divides by the period.
Scale ==
    2 * Pow10((IF MaxRows >= AtrPeriod - 1 + MaxTail
                  THEN MaxRows ELSE AtrPeriod - 1 + MaxTail) + 1 - AtrPeriod)

Abs(x) == IF x < 0 THEN 0 - x ELSE x
Max2(a, b) == IF a >= b THEN a ELSE b

\* True range of row i (the first row has no previous close).
TrueRange(s, i) ==
    IF i = 1 THEN s[1].high - s[1].low
    ELSE Max2(s[i].high - s[i].low,
              Max2(Abs(s[i].high - s[i - 1].close), Abs(s[i].low - s[i - 1].close)))

RECURSIVE SumTrueRange(_, _)
SumTrueRange(s, i) == IF i = 0 THEN 0 ELSE SumTrueRange(s, i - 1) + TrueRange(s, i)

\* average_true_range(high, low, close, window): 0 before the first full
\* window, the mean true range of the window at its last row, then Wilder's
\* smoothing. In units of 1/Scale.
RECURSIVE Atr(_, _)
Atr(s, i) ==
    IF i < AtrPeriod THEN 0
    ELSE IF i = AtrPeriod THEN (Scale * SumTrueRange(s, AtrPeriod)) \div AtrPeriod
    ELSE (Atr(s, i - 1) * (AtrPeriod - 1) + Scale * TrueRange(s, i)) \div AtrPeriod

BasicUpper(s, i) == (Scale * (s[i].high + s[i].low)) \div 2 + Multiplier * Atr(s, i)
BasicLower(s, i) == (Scale * (s[i].high + s[i].low)) \div 2 - Multiplier * Atr(s, i)

TrendRow(c, u, l, up) ==
    [close |-> c, upper_band |-> u, lower_band |-> l, in_uptrend |-> up,
     supertrend |-> IF up THEN l ELSE u,
     supertrend_direction |-> IF up THEN 1 ELSE 0 - 1]

\* A loop body whose carry-over branch leaves the bands as first computed.
SupertrendStepNoRatchet(s, current, previous) ==
    LET c == Scale * s[current].close
        u == BasicUpper(s, current)
        l == BasicLower(s, current)
    IN  IF c > previous.upper_band THEN TrendRow(c, u, l, TRUE)
        ELSE IF c < previous.lower_band THEN TrendRow(c, u, l, FALSE)
        ELSE TrendRow(c, u, l, previous.in_uptrend)

\* A loop body that compares the close with the previous row's bands as they
\* were first computed, not as the loop left them.
SupertrendStepBasicBands(s, current, previous) ==
    LET c == Scale * s[current].close
        u == BasicUpper(s, current)
        l == BasicLower(s, current)
    IN  IF c > BasicUpper(s, current - 1) THEN TrendRow(c, u, l, TRUE)
        ELSE IF c < BasicLower(s, current - 1) THEN TrendRow(c, u, l, FALSE)
        ELSE LET up == previous.in_uptrend
             IN  TrendRow(c,
                          IF ~up /\ u > previous.upper_band
                              THEN previous.upper_band ELSE u,
                          IF up /\ l < previous.lower_band
                              THEN previous.lower_band ELSE l,
                          up)

\* One pass of the loop body: row `current` from the stored row `previous`.
SupertrendStep(s, current, previous) ==
    LET c == Scale * s[current].close
        u == BasicUpper(s, current)
        l == BasicLower(s, current)
    IN  IF c > previous.upper_band THEN TrendRow(c, u, l, TRUE)
        ELSE IF c < previous.lower_band THEN TrendRow(c, u, l, FALSE)
        ELSE LET up == previous.in_uptrend
             IN  TrendRow(c,
                          IF ~up /\ u > previous.upper_band
                              THEN previous.upper_band ELSE u,
                          IF up /\ l < previous.lower_band
                              THEN previous.lower_band ELSE l,
                          up)

\* The first n rows of the result (row 1 starts in an uptrend on its basic bands).
RECURSIVE SupertrendRows(_, _)
SupertrendRows(s, n) ==
    IF n = 0 THEN <<>>
    ELSE IF n = 1
        THEN <<TrendRow(Scale * s[1].close, BasicUpper(s, 1), BasicLower(s, 1), TRUE)>>
    ELSE LET done == SupertrendRows(s, n - 1)
         IN  Append(done, SupertrendStep(s, n, done[n - 1]))

_calculate_supertrend(s) == SupertrendRows(s, Len(s))

Candle(h, l, c) == [high |-> h, low |-> l, close |-> c]

\* Candle shapes a series is built from: quiet, wide-range rising, falling.
CandleShapes == {Candle(10, 10, 10), Candle(13, 5, 12), Candle(9, 7, 8)}

\* Series one row short of the ATR's first window: a first candle, then one
\* shape repeated.
TrendPrefixes ==
    {[i \in 1..(AtrPeriod - 1) |-> IF i = 1 THEN a ELSE b] : a, b \in CandleShapes}

-----------------------------------------------------------------------------
(* The decision function on bounded inputs *)

IndicatorRow(t, c, e9, e20, e50, dir, rsi, mf, vw) ==
    [open_time |-> t, close |-> c, ema9 |-> e9, ema20 |-> e20, ema50 |-> e50,
     supertrend_direction |-> dir, rsi14 |-> rsi, volume_avg20 |-> mf,
     vwap_approx |-> vw]

EmaTriples ==
    {<<3, 2, 1>>, <<1, 2, 3>>, <<2, 2, 1>>, <<NaN, 2, 1>>, <<3, 2, NaN>>, <<1, NaN, 3>>}
Directions == {1, -1}
RsiValues == {34, 35, 45, 55, 65, 66, NaN}
MoneyFlowValues == {0 - 11, 0 - 10, 10, 11, NaN}
CloseVwapPairs == {<<10, 9>>, <<9, 10>>, <<10, 10>>, <<10, NaN>>}
EntryOpenTimes == {16, 17}

\* Latest rows of the 4h and 1h series: what get_signal reads of them varies.
CoarseRows ==
    {IndicatorRow(0, 10, e[1], e[2], e[3], d, 50, 0, 10) :
        e \in EmaTriples, d \in Directions}

\* Latest rows of the 15m series.
EntryRows ==
    {IndicatorRow(t, cv[1], 2, 2, 2, d, r, m, cv[2]) :
        t \in EntryOpenTimes, cv \in CloseVwapPairs, d \in Directions,
        r \in RsiValues, m \in MoneyFlowValues}

\* A timeframe the caller's map has no entry for.
NoRow == IndicatorRow(NoneTime, NaN, NaN, NaN, NaN, 0, NaN, NaN, NaN)

\* The map with an entry for each timeframe whose row is given.
LatestMap(r15, r1, r4) ==
    LET given == [tf \in Timeframes |->
                    IF tf = "15m" THEN r15 ELSE IF tf = "1h" THEN r1 ELSE r4]
    IN  [tf \in {x \in Timeframes : given[x] # NoRow} |-> given[tf]]

-----------------------------------------------------------------------------
(* The signal store: SignalAgent and run_analysis_agent *)

\* 15m candles that close, over all symbols, while the cycles are observed.
MaxNewCandles == 1

\* The symbols of the filtered-symbols table, in query order.
Symbols == <<"BTCUSDT", "ETHUSDT">>
SymbolSet == {Symbols[i] : i \in 1..Len(Symbols)}

\* A Signal row; the id is assigned by the table on insert.
SignalRow(id, symbol, signal, strategy, timeframe, kline_time) ==
    [id |-> id, symbol |-> symbol, signal |-> signal, strategy |-> strategy,
     timeframe |-> timeframe, kline_open_time |-> kline_time]

\* query(Signal).filter_by(symbol, strategy, timeframe, kline_open_time).first()
\* finds a row.
ExistingSignal(tbl, symbol, strategy, timeframe, kline_time) ==
    \E i \in 1..Len(tbl) :
        /\ tbl[i].symbol = symbol
        /\ tbl[i].strategy = strategy
        /\ tbl[i].timeframe = timeframe
        /\ tbl[i].kline_open_time = kline_time

\* session.add(new_signal); session.commit(). The insert either assigns the
\* next id, or fails in the database and is rolled back (inserted = FALSE).
InsertSignal(tbl, symbol, signal, strategy, timeframe, kline_time, inserted) ==
    IF inserted
        THEN Append(tbl, SignalRow(Len(tbl) + 1, symbol, signal, strategy,
                                   timeframe, kline_time))
        ELSE tbl

\* A store that adds the signal without the existence test.
store_signal_unchecked(tbl, symbol, signal, strategy, timeframe, kline_time, inserted) ==
    InsertSignal(tbl, symbol, signal, strategy, timeframe, kline_time, inserted)

\* A store in which the latest decision replaces the kind of the stored row.
store_signal_last_writer(tbl, symbol, signal, strategy, timeframe, kline_time, inserted) ==
    IF ExistingSignal(tbl, symbol, strategy, timeframe, kline_time)
        THEN [i \in 1..Len(tbl) |->
                 IF /\ tbl[i].symbol = symbol
                    /\ tbl[i].strategy = strategy
                    /\ tbl[i].timeframe = timeframe
                    /\ tbl[i].kline_open_time = kline_time
                     THEN [tbl[i] EXCEPT !.signal = signal]
                     ELSE tbl[i]]
        ELSE InsertSignal(tbl, symbol, signal, strategy, timeframe, kline_time, inserted)

\* SignalAgent._store_signal: insert unless a row with the key exists; every
\* exception is caught, logged and rolled back.
store_signal(tbl, symbol, signal, strategy, timeframe, kline_time, inserted) ==
    IF ExistingSignal(tbl, symbol, strategy, timeframe, kline_time)
        THEN tbl
        ELSE InsertSignal(tbl, symbol, signal, strategy, timeframe, kline_time, inserted)

\* The store block inside run_analysis_agent: the same test and insert; a
\* failing insert leaves through the symbol's except clause.
analysis_store(tbl, symbol, signal, strategy, timeframe, kline_time, inserted) ==
    IF ExistingSignal(tbl, symbol, strategy, timeframe, kline_time)
        THEN tbl
        ELSE InsertSignal(tbl, symbol, signal, strategy, timeframe, kline_time, inserted)

\* What the latest rows of a symbol look like to the strategy.
Profiles == {"bull", "bear", "neutral", "partial"}

BullCoarse == IndicatorRow(0, 10, 3, 2, 1, 1, 50, 0, 10)
BearCoarse == IndicatorRow(0, 10, 1, 2, 3, 0 - 1, 50, 0, 10)
BullEntry(t) == IndicatorRow(t, 10, 2, 2, 2, 1, 50, 11, 9)
BearEntry(t) == IndicatorRow(t, 9, 2, 2, 2, 0 - 1, 50, 0 - 11, 10)
NeutralEntry(t) == IndicatorRow(t, 10, 2, 2, 2, 1, 70, 11, 9)

\* latest_candles of a symbol whose newest 15m candle opened at t ("partial":
\* the 4h series is empty).
ProfileRows(profile, t) ==
    IF profile = "bull" THEN LatestMap(BullEntry(t), BullCoarse, BullCoarse)
    ELSE IF profile = "bear" THEN LatestMap(BearEntry(t), BearCoarse, BearCoarse)
    ELSE IF profile = "neutral" THEN LatestMap(NeutralEntry(t), BullCoarse, BullCoarse)
    ELSE LatestMap(BullEntry(t), BullCoarse, NoRow)

LatestByProfile == [p \in Profiles, t \in 0..MaxNewCandles |-> ProfileRows(p, t)]
ProfileLatest(profile, t) == LatestByProfile[profile, t]

\* A symbol loop that stores whatever get_signal returned, HOLD included.
generate_signals_storing_hold(tbl, symbol, lc, inserted) ==
    IF ~(Timeframes \subseteq DOMAIN lc) THEN tbl
    ELSE LET d == get_signal(lc)
         IN  store_signal(tbl, symbol, d.signal, StrategyName,
                          d.timeframe, d.kline_time, inserted)

\* SignalAgent._generate_signals_for_symbol for the one loaded strategy: skip
\* when a timeframe lacks a latest row, else decide and store a non-HOLD.
generate_signals_for_symbol(tbl, symbol, lc, inserted) ==
    IF ~(Timeframes \subseteq DOMAIN lc) THEN tbl
    ELSE LET d == get_signal(lc)
         IN  IF d.signal # "HOLD"
                 THEN store_signal(tbl, symbol, d.signal, StrategyName,
                                   d.timeframe, d.kline_time, inserted)
                 ELSE tbl

\* The body of run_analysis_agent's loop for one symbol.
analyse_symbol(tbl, symbol, lc, inserted) ==
    IF ~(Timeframes \subseteq DOMAIN lc) THEN tbl
    ELSE LET d == get_signal(lc)
         IN  IF d.signal # "HOLD"
                 THEN analysis_store(tbl, symbol, d.signal, StrategyName,
                                     d.timeframe, d.kline_time, inserted)
                 ELSE tbl

\* SignalAgent.process: the symbols of input_data one after another.
RECURSIVE signal_agent_process(_, _, _, _, _)
signal_agent_process(tbl, n, profile, opened, inserted) ==
    IF n = 0 THEN tbl
    ELSE generate_signals_for_symbol(
             signal_agent_process(tbl, n - 1, profile, opened, inserted),
             Symbols[n],
             ProfileLatest(profile[Symbols[n]], opened[Symbols[n]]),
             inserted[Symbols[n]])

\* run_analysis_agent: the symbols one after another.
RECURSIVE run_analysis_agent(_, _, _, _, _)
run_analysis_agent(tbl, n, profile, opened, inserted) ==
    IF n = 0 THEN tbl
    ELSE analyse_symbol(
             run_analysis_agent(tbl, n - 1, profile, opened, inserted),
             Symbols[n],
             ProfileLatest(profile[Symbols[n]], opened[Symbols[n]]),
             inserted[Symbols[n]])

\* The evaluation cycles that can overlap on the signal store.
Agents == {"SignalAgent", "run_analysis_agent"}

\* A running cycle: the symbol it is at (n), where it is in that symbol's
\* work, and the decision it is storing.
Writer(pc, n, signal, timeframe, kline_time) ==
    [pc |-> pc, n |-> n, signal |-> signal, timeframe |-> timeframe,
     kline_time |-> kline_time]

WriterIdle == Writer("idle", 0, "HOLD", NoneTf, NoneTime)

\* The symbol loop moves on: the next symbol's decision, or the cycle's end.
WriterNext(w) ==
    IF w.n < Len(Symbols)
        THEN Writer("decide", w.n + 1, "HOLD", NoneTf, NoneTime)
        ELSE Writer("finished", w.n, "HOLD", NoneTf, NoneTime)

\* The two ways an evaluation cycle is run: main's workflow of IndicatorAgent
\* then SignalAgent, and the standalone run_analysis_agent.
Paths == {"orchestrated", "run_analysis_agent"}

\* The stage of a symbol's work that raises, if any.
Stages == {"none", "load", "indicators", "decide", "store"}

\* A cycle in progress: the agent at work (phase), the symbol it is at (n),
\* the symbols IndicatorAgent returned data for (enriched), the symbols whose
\* work ran to its end (completed), and whether an exception left the agent.
Evaluation(path, phase, n, enriched, completed, faults) ==
    [path |-> path, phase |-> phase, n |-> n, enriched |-> enriched,
     completed |-> completed, faults |-> faults]

EvaluationIdle ==
    Evaluation("none", "idle", 0, {}, {}, [s \in SymbolSet |-> "none"])

\* A loop over the symbols in which each symbol's exception is caught and
\* logged before the next symbol.
CaughtPerSymbol(e) == [e EXCEPT !.n = e.n + 1]

\* IndicatorAgent.process and SignalAgent.process: the call for a symbol is
\* not inside any try, so its exception leaves process; execute_workflow logs
\* it and the step has no result.
LeavesProcess(e) == [e EXCEPT !.phase = "raised"]

-----------------------------------------------------------------------------
(* The kline tables: historical backfill and websocket relay *)

\* The exchange opens 15m candles 0..MaxNow. Open times count 15m intervals
\* from a fixed (positive) epoch.
MaxNow == 3

\* Rows per fetched page (1000 in the agent; kept small here).
KLINE_LIMIT == 2

\* backfill_days, in 15m candles.
BackfillCandles == 2

TIME_FRAMES == <<"15m", "1h", "4h">>
TfUnits(tf) == IF tf = "15m" THEN 1 ELSE IF tf = "1h" THEN 4 ELSE 16

\* A kline row: its key and its other columns, which are all written together
\* (close stands for them).
KlineRow(t, c) == [open_time |-> t, close |-> c]

\* The exchange: the candle of a timeframe opened at t is closed once its
\* interval has passed; until then its values are provisional.
CandleClosed(tf, t, clock) == t + TfUnits(tf) <= clock
ExchangeKline(tf, t, clock) ==
    KlineRow(t, IF CandleClosed(tf, t, clock) THEN 10 + t ELSE 1)

\* The klines endpoint: up to `room` candles opened at or after t, ascending,
\* the candle still open included.
RECURSIVE PageFrom(_, _, _, _)
PageFrom(tf, t, clock, room) ==
    IF room = 0 \/ t > clock THEN <<>>
    ELSE IF t % TfUnits(tf) = 0
        THEN <<ExchangeKline(tf, t, clock)>> \o PageFrom(tf, t + 1, clock, room - 1)
    ELSE PageFrom(tf, t + 1, clock, room)

\* fetch_klines: the page, or [] when the request fails.
fetch_klines(tf, start_time, clock, ok) ==
    IF ok THEN PageFrom(tf, start_time, clock, KLINE_LIMIT) ELSE <<>>

HasKey(tbl, t) == \E i \in 1..Len(tbl) : tbl[i].open_time = t

\* INSERT: tables are kept in primary-key order.
SqlInsert(tbl, r) ==
    SelectSeq(tbl, LAMBDA x : x.open_time <= r.open_time) \o <<r>>
        \o SelectSeq(tbl, LAMBDA x : x.open_time > r.open_time)

\* An UPDATE that adds the new values to the stored ones.
SqlUpdateAccumulate(tbl, r) ==
    [i \in 1..Len(tbl) |->
        IF tbl[i].open_time = r.open_time
            THEN KlineRow(r.open_time, tbl[i].close + r.close) ELSE tbl[i]]

\* UPDATE ... WHERE open_time = r.open_time: the other columns are overwritten.
SqlUpdate(tbl, r) ==
    [i \in 1..Len(tbl) |-> IF tbl[i].open_time = r.open_time THEN r ELSE tbl[i]]

\* session.merge(obj): look the primary key up; the object becomes a pending
\* INSERT when no row is found and a pending UPDATE otherwise.
MergeOp(tbl, r) ==
    [kind |-> IF HasKey(tbl, r.open_time) THEN "UPDATE" ELSE "INSERT", row |-> r]
NoOp == [kind |-> "NONE", row |-> KlineRow(0, 0)]

\* A table whose open_time column is no primary key accepts every INSERT.
FlushOkNoPrimaryKey(tbl, op) == TRUE

\* The flush of a pending operation succeeds unless it inserts a primary key
\* that is already stored (IntegrityError).
FlushOk(tbl, op) == op.kind # "INSERT" \/ ~HasKey(tbl, op.row.open_time)

Flushed(tbl, op) ==
    IF op.kind = "INSERT" THEN SqlInsert(tbl, op.row)
    ELSE IF op.kind = "UPDATE" THEN SqlUpdate(tbl, op.row)
    ELSE tbl

\* A start_time that is the backfill horizon whatever is stored.
WatermarkFromHorizon(tbl, clock) == Max2(0, clock - BackfillCandles)

\* A start_time that requests the last stored candle again.
WatermarkAtLastStored(tbl, clock) ==
    IF tbl # <<>> THEN tbl[Len(tbl)].open_time
    ELSE Max2(0, clock - BackfillCandles)

\* The backfill's start_time for a series: after the last stored candle, else
\* the backfill horizon.
Watermark(tbl, clock) ==
    IF tbl # <<>> THEN tbl[Len(tbl)].open_time + 1
    ELSE Max2(0, clock - BackfillCandles)

SeriesSet == SymbolSet \X Timeframes

BackfillState(pc, sym, tf, start_time, page, i, pending, view, intxn) ==
    [pc |-> pc, sym |-> sym, tf |-> tf, start_time |-> start_time, page |-> page,
     i |-> i, pending |-> pending, view |-> view, intxn |-> intxn]

BackfillIdle == BackfillState("idle", 1, 1, 0, <<>>, 1, NoOp, <<>>, FALSE)

\* run_historical_klines_agent has returned ("Historical K-lines Agent
\* Finished").
BackfillFinished == BackfillState("finished", 1, 1, 0, <<>>, 1, NoOp, <<>>, FALSE)

\* The series the backfill is at.
BfSeries == <<symbols[bf.sym], TIME_FRAMES[bf.tf]>>

\* Leaving a series (session.close, after a rollback if it failed): on to the
\* next timeframe, the next symbol, or the end of the run.
NextSeries ==
    IF bf.tf < Len(TIME_FRAMES)
        THEN BackfillState("watermark", bf.sym, bf.tf + 1, 0, <<>>, 1, NoOp, <<>>, FALSE)
    ELSE IF bf.sym < Len(symbols)
        THEN BackfillState("watermark", bf.sym + 1, 1, 0, <<>>, 1, NoOp, <<>>, FALSE)
    ELSE BackfillFinished

\* An exception that leaves run_historical_klines_agent.
SeriesErrorRaised == BackfillState("raised", bf.sym, bf.tf, 0, <<>>, 1, NoOp, <<>>, FALSE)

\* An exception while a series is processed is caught in the timeframe loop:
\* logged, rolled back, the session closed, and the loop goes on.
OnSeriesError == NextSeries

\* A next request that starts where the page started.
SameStartTime(klines_data) == klines_data[1].open_time

\* start_time = klines_data[-1][0] + 1
NextStartTime(klines_data) == klines_data[Len(klines_data)].open_time + 1

RelayState(pc, series, pending, log) ==
    [pc |-> pc, series |-> series, pending |-> pending, log |-> log]

RelayIdle(log) == RelayState("idle", <<"", "">>, NoOp, log)

\* A handler whose exception reaches its caller.
RaisedToLoop(log) == RelayState("raised", <<"", "">>, NoOp, log)

\* The except clauses that close _handle_kline_message: the exception is
\* logged and the handler returns.
CaughtByHandler(log) == RelayIdle(log)

\* A push event: symbol, interval, closed flag, open_time, values.
KlineEvent(sym, tf, closed, row) == [s |-> sym, i |-> tf, x |-> closed, k |-> row]

\* What the stream can deliver: for a streamed series, an update of the candle
\* still open, or the closing event of the candle that closed last.
StreamEvents(clock) ==
    UNION {{KlineEvent(symbols[n], tf, CandleClosed(tf, t, clock), ExchangeKline(tf, t, clock)) :
                n \in 1..Len(symbols), t \in {u \in 0..clock : u % TfUnits(tf) = 0}} :
           tf \in Timeframes}

\* A message of the push feed as the handler meets it: a kline event in its
\* envelope, or a message that is damaged in one way.
PushMessage(form, event) == [form |-> form, event |-> event]

\* The last message taken from the socket.
Received(form, parity) == [form |-> form, parity |-> parity]
NoMessage == Received("", 0)

\* Not JSON; no 'stream'; no 'data'; no 'k'; no 'x' in the kline; no 's' or 'i'
\* in the kline; one of the candle's other fields missing.
MalformedForms ==
    {"not_json", "no_stream", "no_data", "no_k", "no_x", "no_symbol", "no_field"}

\* What a message without a kline carries of it.
NoEvent == KlineEvent("", "", FALSE, KlineRow(0, 0))

StreamMessages(clock) ==
    {PushMessage(form, event) :
        form \in {"kline", "no_x", "no_symbol", "no_field"},
        event \in StreamEvents(clock)}
    \cup {PushMessage(form, NoEvent) :
            form \in {"not_json", "no_stream", "no_data", "no_k"}}

\* A handler that takes every kline for a closed one.
IsAnyEvent(msg) == TRUE

\* kline.get('x'): the closed flag, false when the key is absent.
IsClosedEvent(msg) == msg.form # "no_x" /\ msg.event.x

\* The tables already declared on the relay's one declarative base.
DeclaredTables == {key[2] : key \in kline_models}

\* The backfill's transaction holds the write lock of its symbol's database.
LockedByBackfill(symbol) == bf.intxn /\ symbols[bf.sym] = symbol

-----------------------------------------------------------------------------
(* run_backtest: alignment of the three frames and the portfolio loop *)

\* Rows of the 15m frame of a backtest.
MaxBaseRows == 3

\* Amounts of cash and asset are exact fractions <<numerator, denominator>>
\* in lowest terms, the denominator positive (the floats' rounding is left out).
RECURSIVE Gcd(_, _)
Gcd(a, b) == IF b = 0 THEN a ELSE Gcd(b, a % b)

Frac(n, m) ==
    LET g == Gcd(Abs(n), m)
    IN  IF n = 0 THEN <<0, 1>> ELSE <<n \div g, m \div g>>
FracDiv(x, k) == Frac(x[1], x[2] * k)
FracMul(x, k) == Frac(x[1] * k, x[2])
FracSub(x, y) == Frac(x[1] * y[2] - y[1] * x[2], x[2] * y[2])
FracZero == Frac(0, 1)
FracPositive(x) == x[1] > 0

\* DataFrame.dropna: a row with a NaN in any column is dropped.
HasNaN(row) ==
    \/ row.close = NaN \/ row.ema9 = NaN \/ row.ema20 = NaN \/ row.ema50 = NaN
    \/ row.rsi14 = NaN \/ row.volume_avg20 = NaN \/ row.vwap_approx = NaN
dropna(frame) == SelectSeq(frame, LAMBDA row : ~HasNaN(row))

\* A join that takes the earliest right row at or before t.
AsofEarliest(right, t) ==
    LET earlier == SelectSeq(right, LAMBDA row : row.open_time <= t)
    IN  IF earlier = <<>> THEN NoRow ELSE earlier[1]

\* A join that takes the first right row at or after t.
AsofForward(right, t) ==
    LET later == SelectSeq(right, LAMBDA row : row.open_time >= t)
    IN  IF later = <<>> THEN NoRow ELSE later[1]

\* pd.merge_asof(left, right, on='timestamp'), for one left row: the last
\* right row whose timestamp is at or before t; none, and the right columns
\* are NaN.
AsofBackward(right, t) ==
    LET earlier == SelectSeq(right, LAMBDA row : row.open_time <= t)
    IN  IF earlier = <<>> THEN NoRow ELSE earlier[Len(earlier)]

\* The close_time column of a stored kline (kline[6] of the exchange): the
\* last instant of the candle's interval, counted here as the instant the
\* interval ends (one millisecond later for every candle alike).
CloseTime(tf, open_time) == open_time + TfUnits(tf)

AlignedRow(r15, r1, r4) ==
    [timestamp |-> r15.open_time, r15m |-> r15, r1h |-> r1, r4h |-> r4]

\* Step 3 without the dropna on the merged frame.
AlignKeepingUnpaired(frames) ==
    LET df_15m == dropna(frames["15m"])
        df_1h == dropna(frames["1h"])
        df_4h == dropna(frames["4h"])
    IN  [i \in 1..Len(df_15m) |->
            AlignedRow(df_15m[i],
                       AsofBackward(df_1h, df_15m[i].open_time),
                       AsofBackward(df_4h, df_15m[i].open_time))]

\* Step 3 of run_backtest: dropna on each frame, the two as-of merges on the
\* 15m rows, and dropna on the result.
Align(frames) ==
    LET df_15m == dropna(frames["15m"])
        df_1h == dropna(frames["1h"])
        df_4h == dropna(frames["4h"])
        merged == [i \in 1..Len(df_15m) |->
                    AlignedRow(df_15m[i],
                               AsofBackward(df_1h, df_15m[i].open_time),
                               AsofBackward(df_4h, df_15m[i].open_time))]
    IN  SelectSeq(merged, LAMBDA row : row.r1h # NoRow /\ row.r4h # NoRow)

Trade(time, type, price, amount) ==
    [time |-> time, type |-> type, price |-> price, amount |-> amount]

Portfolio(cash, asset_held, position, trades) ==
    [cash |-> cash, asset_held |-> asset_held, position |-> position,
     trades |-> trades]

\* A BUY that leaves the cash where it was.
BuyKeepsCash(pf, time, current_price) ==
    LET bought == FracDiv(pf.cash, current_price)
    IN  Portfolio(pf.cash, bought, "IN",
                  Append(pf.trades, Trade(time, "BUY", current_price, bought)))

\* signal == 'BUY' and position == 'OUT'.
Buy(pf, time, current_price) ==
    LET bought == FracDiv(pf.cash, current_price)
    IN  Portfolio(FracZero, bought, "IN",
                  Append(pf.trades, Trade(time, "BUY", current_price, bought)))

\* A SELL that is not appended to the trades.
SellUnrecorded(pf, time, current_price) ==
    Portfolio(FracMul(pf.asset_held, current_price), FracZero, "OUT", pf.trades)

\* signal == 'SELL' and position == 'IN'.
Sell(pf, time, current_price) ==
    LET value == FracMul(pf.asset_held, current_price)
    IN  Portfolio(value, FracZero, "OUT",
                  Append(pf.trades, Trade(time, "SELL", current_price, value)))

\* A loop body that sells on every SELL, whatever the position.
ExecuteTradeSellAnyPosition(pf, signal, row) ==
    IF signal = "BUY" /\ pf.position = "OUT"
        THEN Buy(pf, row.timestamp, row.r15m.close)
    ELSE IF signal = "SELL" THEN Sell(pf, row.timestamp, row.r15m.close)
    ELSE pf

\* A loop body that buys on every BUY, whatever the position.
ExecuteTradeAnyPosition(pf, signal, row) ==
    IF signal = "BUY" THEN Buy(pf, row.timestamp, row.r15m.close)
    ELSE IF signal = "SELL" /\ pf.position = "IN"
        THEN Sell(pf, row.timestamp, row.r15m.close)
    ELSE pf

\* The body of the loop for one aligned row.
ExecuteTrade(pf, signal, row) ==
    IF signal = "BUY" /\ pf.position = "OUT"
        THEN Buy(pf, row.timestamp, row.r15m.close)
    ELSE IF signal = "SELL" /\ pf.position = "IN"
        THEN Sell(pf, row.timestamp, row.r15m.close)
    ELSE pf

Undefined == <<0, 0>>

Report(status, final_value, profit, profit_percent, total_trades) ==
    [status |-> status, final_value |-> final_value, profit |-> profit,
     profit_percent |-> profit_percent, total_trades |-> total_trades]

NoReport == Report("", Undefined, Undefined, Undefined, 0)

\* A valuation that counts the cash only.
FinalValueCashOnly(pf, frame) == pf.cash

\* final_value: the cash, or the asset held at the 15m close of the last
\* aligned row when the position is open.
FinalValue(pf, frame) ==
    IF pf.position = "IN"
        THEN FracMul(pf.asset_held, frame[Len(frame)].r15m.close)
    ELSE pf.cash

\* Step 5 of run_backtest. With a starting capital of zero the percentage is a
\* division by zero: ZeroDivisionError on Python floats (no trade was made),
\* nan once a trade has turned the amounts into numpy floats. An empty aligned
\* frame fails at the period line.
FinalReport(pf, frame, capital) ==
    LET final_value == FinalValue(pf, frame)
        profit == FracSub(final_value, Frac(capital, 1))
    IN  IF capital = 0 /\ pf.trades = <<>>
            THEN Report("ZeroDivisionError", final_value, profit, Undefined, 0)
        ELSE LET profit_percent ==
                    IF capital = 0 THEN Undefined
                    ELSE FracMul(FracDiv(profit, capital), 100)
             IN  IF frame = <<>>
                    THEN Report("IndexError", final_value, profit, profit_percent, 0)
                 ELSE Report("finished", final_value, profit, profit_percent,
                             Len(pf.trades))

BacktestState(pc, i, signal, portfolio, report) ==
    [pc |-> pc, i |-> i, signal |-> signal, portfolio |-> portfolio,
     report |-> report]

BacktestIdle == BacktestState("start", 1, "", Portfolio(FracZero, FracZero, "OUT", <<>>), NoReport)

\* A run that starts with the trades the first run has left in the list.
StartLoopKeepingTrades(b, capital) ==
    [b EXCEPT !.pc = "loop",
              !.portfolio = Portfolio(Frac(capital, 1), FracZero, "OUT",
                                      bt.portfolio.trades)]

\* Step 4 up to the loop: cash = starting_capital, asset_held = 0.0,
\* position = 'OUT', trades = [].
StartLoop(b, capital) ==
    [b EXCEPT !.pc = "loop",
              !.portfolio = Portfolio(Frac(capital, 1), FracZero, "OUT", <<>>)]

\* One iteration of the loop over the aligned rows.
LoopBody(b, frame) ==
    LET row == frame[b.i]
        signal == get_signal(LatestMap(row.r15m, row.r1h, row.r4h)).signal
    IN  [b EXCEPT !.i = b.i + 1,
                  !.signal = signal,
                  !.portfolio = ExecuteTrade(b.portfolio, signal, row)]

\* Step 5 once the loop is over.
Finish(b, frame, capital) ==
    [b EXCEPT !.pc = "done",
              !.report = FinalReport(b.portfolio, frame, capital)]

\* Prepared rows a frame can hold. A 15m row is bullish, bearish or still in
\* an indicator's warm-up (NaN), at a close of 10 or 12; 1h and 4h rows are
\* bullish, bearish or in warm-up.
BaseKinds == {<<"bull", 10>>, <<"bull", 12>>, <<"bear", 10>>, <<"bear", 12>>, <<"nan", 10>>}
CoarseKinds == {"absent", "bull", "bear", "nan"}

BaseRow(kind, t) ==
    IF kind[1] = "bull" THEN IndicatorRow(t, kind[2], 2, 2, 2, 1, 50, 11, kind[2] - 1)
    ELSE IF kind[1] = "bear"
        THEN IndicatorRow(t, kind[2], 2, 2, 2, 0 - 1, 50, 0 - 11, kind[2] + 1)
    ELSE IndicatorRow(t, kind[2], 2, 2, NaN, 1, NaN, NaN, NaN)

CoarseRow(kind, t) ==
    IF kind = "bull" THEN IndicatorRow(t, 10, 3, 2, 1, 1, 50, 0, 10)
    ELSE IF kind = "bear" THEN IndicatorRow(t, 10, 1, 2, 3, 0 - 1, 50, 0, 10)
    ELSE IndicatorRow(t, 10, 1, 2, NaN, 1, 50, 0, 10)

\* Open times of the frames' rows, in 15m units: the 15m rows from 15 on, 1h
\* rows at 12 and 16, 4h rows at 0 and 16.
BaseOpenTime(i) == 14 + i
HourOpenTimes == <<12, 16>>
FourHourOpenTimes == <<0, 16>>

BaseFrame(kinds) == [i \in 1..Len(kinds) |-> BaseRow(kinds[i], BaseOpenTime(i))]
CoarseFrame(kinds, times) ==
    LET slots == SelectSeq([i \in 1..Len(times) |-> i], LAMBDA i : kinds[i] # "absent")
    IN  [n \in 1..Len(slots) |-> CoarseRow(kinds[slots[n]], times[slots[n]])]

StartingCapitals == {0, 1000}

\* The variables of a component that takes no part in a specification.
\* The symbols a cycle decides a non-HOLD signal for (generated_signals).
DecidedSymbols(profile, opened) ==
    {s \in SymbolSet :
        LET lc == ProfileLatest(profile[s], opened[s])
        IN  Timeframes \subseteq DOMAIN lc /\ get_signal(lc).signal # "HOLD"}

\* The kind each entry of symbol_signals carries.
DecidedKinds(profile, opened) ==
    [s \in DecidedSymbols(profile, opened) |->
        get_signal(ProfileLatest(profile[s], opened[s])).signal]

CycleReport(agent, decided, kinds, added) ==
    [agent |-> agent, decided |-> decided, kinds |-> kinds, added |-> added]

\* The outcome of an insert is only drawn for the symbols that reach one.
InsertOutcomes(profile, opened) ==
    {ins \in [SymbolSet -> BOOLEAN] :
        \A s \in SymbolSet : s \notin DecidedSymbols(profile, opened) => ins[s]}

RECURSIVE SumOpened(_, _)
SumOpened(opened, n) ==
    IF n = 0 THEN 0 ELSE SumOpened(opened, n - 1) + opened[Symbols[n]]

-----------------------------------------------------------------------------
(* AgentOrchestrator: the registry and execute_workflow *)

\* Steps of the longest workflow examined.
MaxSteps == 2

\* The ids agents are created with, and an id no agent has.
AgentIds == {"Agent1", "Agent2"}
StepIds == AgentIds \cup {"NonExistentAgent"}

\* What an agent's process does: it returns for every input, or raises for
\* the input "bad_data" and returns for the others.
AgentKinds == {"steady", "fragile"}
InputData == {"data1", "bad_data"}

\* An agent object; two agents of one id and different kinds are different
\* objects.
Agent(agent_id, kind) == [agent_id |-> agent_id, kind |-> kind]
AgentObjects == {Agent(id, kind) : id \in AgentIds, kind \in AgentKinds}
NoAgent == Agent("None", "None")

\* await agent.process(input_data): the value returned, or an exception.
Raised == [raised |-> TRUE]
process(agent, input_data) ==
    IF agent.kind = "fragile" /\ input_data = "bad_data"
        THEN Raised
        ELSE [result |-> agent.agent_id, kind |-> agent.kind, input |-> input_data]

\* A dict with one key set (d[k] = v).
DictSet(d, k, v) ==
    [x \in DOMAIN d \cup {k} |-> IF x = k THEN v ELSE d[x]]

\* A registry that keeps the agent first registered under an id.
register_agent_once(reg, agent) ==
    IF agent.agent_id \in DOMAIN reg THEN reg ELSE DictSet(reg, agent.agent_id, agent)

\* register_agent: self.agents[agent.agent_id] = agent (a warning is logged
\* when the id is taken).
register_agent(reg, agent) == DictSet(reg, agent.agent_id, agent)

\* get_agent: self.agents.get(agent_id).
get_agent(reg, agent_id) ==
    IF agent_id \in DOMAIN reg THEN reg[agent_id] ELSE NoAgent

\* The last registry call: its name, argument and return value.
Call(op, arg, ret) == [op |-> op, arg |-> arg, ret |-> ret]
NoCall == Call("none", NoAgent, NoAgent)

Step(agent_id, input_data) == [agent_id |-> agent_id, input_data |-> input_data]
Steps == {Step(id, inp) : id \in StepIds, inp \in InputData}
Workflows == UNION {[1..n -> Steps] : n \in 0..MaxSteps}

\* execute_workflow in progress: the loop's index i (from 1), the results
\* dict, and the process calls awaited so far, in order.
Workflow(pc, steps, i, results, calls) ==
    [pc |-> pc, steps |-> steps, i |-> i, results |-> results, calls |-> calls]
WorkflowIdle == Workflow("idle", <<>>, 1, <<>>, <<>>)

\* A loop body without the try around the process call.
AgentExceptionPropagates(o) == [o EXCEPT !.pc = "raised"]

\* except Exception: the failure is logged and the loop goes on.
OnAgentException(o) == [o EXCEPT !.i = @ + 1]

\* A loop body that records an entry for an id it has no agent for.
AgentNotFoundRecorded(o) ==
    [o EXCEPT !.i = @ + 1,
              !.results = DictSet(@, o.steps[o.i].agent_id, NoAgent)]

\* agent_id not in self.agents: an error is logged and the step is skipped.
OnAgentNotFound(o) == [o EXCEPT !.i = @ + 1]

\* A results dict that keeps the first value stored under an id.
StoreFirstResult(results, agent_id, step_result) ==
    IF agent_id \in DOMAIN results THEN results
    ELSE DictSet(results, agent_id, step_result)

\* results[agent_id] = step_result.
StoreResult(results, agent_id, step_result) ==
    DictSet(results, agent_id, step_result)

\* One iteration of execute_workflow's loop.
execute_step(reg, o) ==
    LET step == o.steps[o.i]
    IN  IF step.agent_id \notin DOMAIN reg THEN OnAgentNotFound(o)
        ELSE LET agent == reg[step.agent_id]
                 called == [o EXCEPT !.calls = Append(@, <<agent, step.input_data>>)]
                 step_result == process(agent, step.input_data)
             IN  IF step_result = Raised THEN OnAgentException(called)
                 ELSE [called EXCEPT
                         !.i = @ + 1,
                         !.results = StoreResult(@, step.agent_id, step_result)]

IdleSignals ==
    /\ signals = <<>>
    /\ latest_open = [s \in SymbolSet |-> 0]
    /\ cycle = CycleReport("none", {}, <<>>, 0)
    /\ writers = [a \in Agents |-> WriterIdle]
    /\ evaluation = EvaluationIdle

IdleStrategy ==
    /\ latest_candles = LatestMap(NoRow, NoRow, NoRow)
    /\ decision = Decision("none", NoneTf, NoneTime)

IdleTrend == df = <<>> /\ st = <<>>

\* The variables outside each component, and their idle values.
outsideStrategy == <<trendVars, signalVars, candleVars, backtestVars, streamVars, orchVars>>
outsideTrend == <<stratVars, signalVars, candleVars, backtestVars, streamVars, orchVars>>
outsideSignals == <<stratVars, trendVars, candleVars, backtestVars, streamVars, orchVars>>
outsideRelay == <<stratVars, trendVars, signalVars, backtestVars, orchVars>>
outsideCandles == <<outsideRelay, streamVars>>
outsideBacktest == <<stratVars, trendVars, signalVars, candleVars, streamVars, orchVars>>
outsideOrchestrator == <<stratVars, trendVars, signalVars, candleVars, backtestVars, streamVars>>
IdleCandles ==
    /\ symbols = <<>>
    /\ store = [k \in SeriesSet |-> <<>>]
    /\ now = 0
    /\ bf = BackfillIdle
    /\ relay = RelayIdle("")
    /\ kline_models = {}

IdleBacktest ==
    /\ kline_data_full = [tf \in Timeframes |-> <<>>]
    /\ starting_capital = 0
    /\ aligned_df = <<>>
    /\ bt = BacktestIdle
    /\ replay = BacktestIdle

\* The relay's process has not been called.
IdleStream == conn = "connecting" /\ received = NoMessage

\* The relay's socket is open and no message has been taken from it.
StreamOpen == conn = "connected" /\ received = NoMessage

\* AgentOrchestrator(): no agent registered, no workflow run.
IdleOrchestrator ==
    /\ agents = <<>>
    /\ last = NoCall
    /\ orch = WorkflowIdle

IdleOutsideStrategy ==
    /\ IdleTrend /\ IdleSignals /\ IdleCandles /\ IdleBacktest /\ IdleStream
    /\ IdleOrchestrator
IdleOutsideTrend ==
    /\ IdleStrategy /\ IdleSignals /\ IdleCandles /\ IdleBacktest /\ IdleStream
    /\ IdleOrchestrator
IdleOutsideSignals ==
    /\ IdleStrategy /\ IdleTrend /\ IdleCandles /\ IdleBacktest /\ IdleStream
    /\ IdleOrchestrator
IdleOutsideRelay ==
    IdleStrategy /\ IdleTrend /\ IdleSignals /\ IdleBacktest /\ IdleOrchestrator
IdleOutsideCandles == IdleOutsideRelay /\ StreamOpen
IdleOutsideBacktest ==
    /\ IdleStrategy /\ IdleTrend /\ IdleSignals /\ IdleCandles /\ IdleStream
    /\ IdleOrchestrator
IdleOutsideOrchestrator ==
    IdleStrategy /\ IdleTrend /\ IdleSignals /\ IdleCandles /\ IdleBacktest /\ IdleStream

\* Every map a caller can pass: any subset of the timeframes, one row each.
InitStrategy ==
    /\ \E r15 \in EntryRows \cup {NoRow}, r1 \in CoarseRows \cup {NoRow},
          r4 \in CoarseRows \cup {NoRow} :
            latest_candles = LatestMap(r15, r1, r4)
    /\ decision = Decision("none", NoneTf, NoneTime)
    /\ IdleOutsideStrategy

GetSignal ==
    /\ decision.signal = "none"
    /\ decision' = get_signal(latest_candles)
    /\ UNCHANGED <<latest_candles, outsideStrategy>>

NextStrategy == GetSignal

SpecStrategy == InitStrategy /\ [][NextStrategy]_vars

-----------------------------------------------------------------------------
(* Specification of the orchestrator: agents are registered and looked up,
   and workflows are executed one after another *)

InitOrchestrator ==
    /\ IdleOrchestrator
    /\ IdleOutsideOrchestrator

RegisterAgent ==
    /\ orch.pc # "running"
    /\ \E agent \in AgentObjects :
         /\ agents' = register_agent(agents, agent)
         /\ last' = Call("register_agent", agent, NoAgent)
    /\ UNCHANGED <<orch, outsideOrchestrator>>

GetAgent ==
    /\ orch.pc # "running"
    /\ \E agent_id \in StepIds :
         last' = Call("get_agent", Agent(agent_id, "None"), get_agent(agents, agent_id))
    /\ UNCHANGED <<agents, orch, outsideOrchestrator>>

\* execute_workflow is called with a list of steps.  Its results are a local
\* of the call, so a call after an earlier one has returned starts as the
\* first one does; one call per behaviour is examined, on any registry.
ExecuteWorkflow ==
    /\ orch.pc = "idle"
    /\ \E workflow_steps \in Workflows :
         orch' = Workflow("running", workflow_steps, 1, <<>>, <<>>)
    /\ UNCHANGED <<agents, last, outsideOrchestrator>>

ExecuteStep ==
    /\ orch.pc = "running"
    /\ orch.i <= Len(orch.steps)
    /\ orch' = execute_step(agents, orch)
    /\ UNCHANGED <<agents, last, outsideOrchestrator>>

\* The loop is through: "Workflow execution finished.", return results.
WorkflowReturn ==
    /\ orch.pc = "running"
    /\ orch.i > Len(orch.steps)
    /\ orch' = [orch EXCEPT !.pc = "returned"]
    /\ UNCHANGED <<agents, last, outsideOrchestrator>>

NextOrchestrator ==
    \/ RegisterAgent
    \/ GetAgent
    \/ ExecuteWorkflow
    \/ ExecuteStep
    \/ WorkflowReturn

SpecOrchestrator == InitOrchestrator /\ [][NextOrchestrator]_vars

-----------------------------------------------------------------------------
(* The supertrend over growing series *)

InitTrend ==
    /\ IdleTrend
    /\ IdleOutsideTrend

\* A further closed candle is stored at the end of the series.
AppendCandle ==
    /\ Len(df) < MaxRows
    /\ \E k \in CandleShapes : df' = Append(df, k)
    /\ st' = <<>>
    /\ UNCHANGED outsideTrend

\* prepare_data runs _calculate_supertrend over the whole series (the ATR
\* needs a full first window).
CalculateSupertrend ==
    /\ Len(df) >= AtrPeriod
    /\ st = <<>>
    /\ st' = _calculate_supertrend(df)
    /\ UNCHANGED <<df, outsideTrend>>

NextTrend == AppendCandle \/ CalculateSupertrend

SpecTrend == InitTrend /\ [][NextTrend]_vars

\* The supertrend over series that start with a settled first window and
\* grow past it, where the ATR is positive and the bands are apart.
InitTrendTail ==
    /\ df \in TrendPrefixes
    /\ st = <<>>
    /\ IdleOutsideTrend

AppendTail ==
    /\ Len(df) < AtrPeriod - 1 + MaxTail
    /\ \E k \in CandleShapes : df' = Append(df, k)
    /\ st' = <<>>
    /\ UNCHANGED outsideTrend

NextTrendTail == AppendTail \/ CalculateSupertrend

SpecTrendTail == InitTrendTail /\ [][NextTrendTail]_vars

-----------------------------------------------------------------------------
(* Evaluation cycles run one after another against the signal store *)

InitSignals ==
    /\ IdleSignals
    /\ IdleOutsideSignals

\* A newer 15m candle of a symbol is stored (by the backfill or the relay).
NewCandle ==
    \E s \in SymbolSet :
        /\ SumOpened(latest_open, Len(Symbols)) < MaxNewCandles
        /\ latest_open' = [latest_open EXCEPT ![s] = @ + 1]
        /\ UNCHANGED <<signals, cycle, writers, evaluation, outsideSignals>>

\* One cycle of SignalAgent.process over the enriched data of all symbols.
SignalAgentCycle ==
    \E profile \in [SymbolSet -> Profiles] :
      \E inserted \in InsertOutcomes(profile, latest_open) :
        /\ signals' = signal_agent_process(signals, Len(Symbols), profile,
                                           latest_open, inserted)
        /\ cycle' = CycleReport("SignalAgent", DecidedSymbols(profile, latest_open),
                                DecidedKinds(profile, latest_open),
                                Len(signals') - Len(signals))
        /\ UNCHANGED <<latest_open, writers, evaluation, outsideSignals>>

\* One cycle of the standalone run_analysis_agent.
AnalysisAgentCycle ==
    \E profile \in [SymbolSet -> Profiles] :
      \E inserted \in InsertOutcomes(profile, latest_open) :
        /\ signals' = run_analysis_agent(signals, Len(Symbols), profile,
                                         latest_open, inserted)
        /\ cycle' = CycleReport("run_analysis_agent",
                                DecidedSymbols(profile, latest_open),
                                DecidedKinds(profile, latest_open),
                                Len(signals') - Len(signals))
        /\ UNCHANGED <<latest_open, writers, evaluation, outsideSignals>>

NextSignals == NewCandle \/ SignalAgentCycle \/ AnalysisAgentCycle

SpecSignals == InitSignals /\ [][NextSignals]_vars

-----------------------------------------------------------------------------
(* Two evaluation cycles overlap on the signal store *)

\* An agent's cycle starts its symbol loop.
WriterBegin(a) ==
    /\ writers[a].pc = "idle"
    /\ writers' = [writers EXCEPT ![a] = Writer("decide", 1, "HOLD", NoneTf, NoneTime)]
    /\ UNCHANGED <<signals, latest_open, cycle, evaluation, outsideSignals>>

\* The cycle loads the symbol's latest rows and decides: a symbol without
\* all timeframes or with a HOLD is passed over, else the store block opens.
WriterDecide(a) ==
    /\ writers[a].pc = "decide"
    /\ \E profile \in Profiles :
         LET w == writers[a]
             sym == Symbols[w.n]
             lc == ProfileLatest(profile, latest_open[sym])
             d == IF Timeframes \subseteq DOMAIN lc THEN get_signal(lc) ELSE Hold
         IN  writers' = [writers EXCEPT ![a] =
                 IF d.signal = "HOLD" THEN WriterNext(w)
                 ELSE Writer("check", w.n, d.signal, d.timeframe, d.kline_time)]
    /\ UNCHANGED <<signals, latest_open, cycle, evaluation, outsideSignals>>

\* query(Signal).filter_by(...).first() in the cycle's own session.
WriterCheck(a) ==
    /\ writers[a].pc = "check"
    /\ LET w == writers[a]
       IN  writers' = [writers EXCEPT ![a] =
               IF ExistingSignal(signals, Symbols[w.n], StrategyName,
                                 w.timeframe, w.kline_time)
                   THEN WriterNext(w)
                   ELSE [w EXCEPT !.pc = "insert"]]
    /\ UNCHANGED <<signals, latest_open, cycle, evaluation, outsideSignals>>

\* add and commit of the row the check found absent; the session closes.
WriterInsert(a) ==
    /\ writers[a].pc = "insert"
    /\ \E inserted \in BOOLEAN :
         LET w == writers[a]
         IN  /\ signals' = InsertSignal(signals, Symbols[w.n], w.signal,
                                        StrategyName, w.timeframe,
                                        w.kline_time, inserted)
             /\ writers' = [writers EXCEPT ![a] = WriterNext(w)]
    /\ UNCHANGED <<latest_open, cycle, evaluation, outsideSignals>>

NextSignalRace ==
    \/ NewCandle
    \/ \E a \in Agents :
          WriterBegin(a) \/ WriterDecide(a) \/ WriterCheck(a) \/ WriterInsert(a)

SpecSignalRace == InitSignals /\ [][NextSignalRace]_vars

-----------------------------------------------------------------------------
(* One evaluation cycle symbol by symbol, with a stage of some symbols'
   work raising. Every symbol's latest rows decide a BUY. *)

\* A cycle starts on one of the two paths.
EvaluationBegin ==
    /\ evaluation.phase \in {"idle", "finished", "raised"}
    /\ \E path \in Paths, faults \in [SymbolSet -> Stages] :
         evaluation' = Evaluation(path,
                                  IF path = "orchestrated" THEN "IndicatorAgent"
                                  ELSE "run_analysis_agent",
                                  1, {}, {}, faults)
    /\ UNCHANGED <<signals, latest_open, cycle, writers, outsideSignals>>

\* IndicatorAgent.process for the next symbol (_process_symbol_for_indicators):
\* a failing read is caught and the symbol returns no data; prepare_data is
\* called outside any try.
IndicatorSymbol ==
    /\ evaluation.phase = "IndicatorAgent"
    /\ evaluation.n <= Len(Symbols)
    /\ LET e == evaluation
           sym == Symbols[e.n]
       IN  evaluation' =
               IF e.faults[sym] = "load" THEN CaughtPerSymbol(e)
               ELSE IF e.faults[sym] = "indicators" THEN LeavesProcess(e)
               ELSE [e EXCEPT !.n = e.n + 1, !.enriched = @ \cup {sym}]
    /\ UNCHANGED <<signals, latest_open, cycle, writers, outsideSignals>>

\* IndicatorAgent.process returns; main hands its data to SignalAgent when
\* there is any.
IndicatorReturn ==
    /\ evaluation.phase = "IndicatorAgent"
    /\ evaluation.n > Len(Symbols)
    /\ evaluation' = [evaluation EXCEPT
                        !.phase = IF evaluation.enriched = {} THEN "finished"
                                  ELSE "SignalAgent",
                        !.n = 1]
    /\ UNCHANGED <<signals, latest_open, cycle, writers, outsideSignals>>

\* SignalAgent.process for the next symbol of input_data
\* (_generate_signals_for_symbol): get_signal is called outside any try;
\* _store_signal catches what the insert raises.
SignalSymbol ==
    /\ evaluation.phase = "SignalAgent"
    /\ evaluation.n <= Len(Symbols)
    /\ LET e == evaluation
           sym == Symbols[e.n]
           lc == ProfileLatest("bull", latest_open[sym])
       IN  IF sym \notin e.enriched
               THEN /\ evaluation' = [e EXCEPT !.n = e.n + 1]
                    /\ signals' = signals
           ELSE IF e.faults[sym] = "decide"
               THEN /\ evaluation' = LeavesProcess(e)
                    /\ signals' = signals
           ELSE /\ signals' = generate_signals_for_symbol(
                                  signals, sym, lc, e.faults[sym] # "store")
                /\ evaluation' =
                       IF e.faults[sym] = "store" THEN CaughtPerSymbol(e)
                       ELSE [e EXCEPT !.n = e.n + 1, !.completed = @ \cup {sym}]
    /\ UNCHANGED <<latest_open, cycle, writers, outsideSignals>>

\* The body of run_analysis_agent's loop for the next symbol: the whole of it
\* is inside the symbol's try.
AnalysisSymbol ==
    /\ evaluation.phase = "run_analysis_agent"
    /\ evaluation.n <= Len(Symbols)
    /\ LET e == evaluation
           sym == Symbols[e.n]
           lc == ProfileLatest("bull", latest_open[sym])
       IN  IF e.faults[sym] \in {"load", "indicators", "decide"}
               THEN /\ evaluation' = CaughtPerSymbol(e)
                    /\ signals' = signals
           ELSE /\ signals' = analyse_symbol(signals, sym, lc,
                                             e.faults[sym] # "store")
                /\ evaluation' =
                       IF e.faults[sym] = "store" THEN CaughtPerSymbol(e)
                       ELSE [e EXCEPT !.n = e.n + 1, !.completed = @ \cup {sym}]
    /\ UNCHANGED <<latest_open, cycle, writers, outsideSignals>>

\* The symbol loop of SignalAgent.process or run_analysis_agent is through.
EvaluationReturn ==
    /\ evaluation.phase \in {"SignalAgent", "run_analysis_agent"}
    /\ evaluation.n > Len(Symbols)
    /\ evaluation' = [evaluation EXCEPT !.phase = "finished"]
    /\ UNCHANGED <<signals, latest_open, cycle, writers, outsideSignals>>

NextEvaluation ==
    \/ NewCandle
    \/ EvaluationBegin
    \/ IndicatorSymbol
    \/ IndicatorReturn
    \/ SignalSymbol
    \/ AnalysisSymbol
    \/ EvaluationReturn

SpecEvaluation == InitSignals /\ [][NextEvaluation]_vars

-----------------------------------------------------------------------------
(* Specification of the kline tables: one backfill run at a time and the
   relay's handler write the same per-symbol database while candles close. *)

InitCandles ==
    /\ symbols = <<"BTCUSDT">>
    /\ store = [k \in SeriesSet |-> <<>>]
    /\ now = 0
    /\ bf = BackfillIdle
    /\ relay = RelayIdle("")
    /\ kline_models = {}
    /\ IdleOutsideCandles

\* The exchange opens the next 15m candle.
Tick ==
    /\ now < MaxNow
    /\ now' = now + 1
    /\ UNCHANGED <<symbols, store, bf, relay, kline_models, outsideCandles>>

\* run_historical_klines_agent starts: the symbols are read; none, and it
\* returns.
BackfillBegin ==
    /\ bf.pc \in {"idle", "finished"}
    /\ symbols # <<>>
    /\ bf' = BackfillState("watermark", 1, 1, 0, <<>>, 1, NoOp, <<>>, FALSE)
    /\ UNCHANGED <<symbols, store, now, relay, kline_models, outsideCandles>>

\* A new session for the series; start_time from the last stored kline.
BackfillWatermark ==
    /\ bf.pc = "watermark"
    /\ bf' = [bf EXCEPT !.pc = "fetch",
                        !.start_time = Watermark(store[BfSeries], now)]
    /\ UNCHANGED <<symbols, store, now, relay, kline_models, outsideCandles>>

\* One request for a page, which succeeds or not; an empty page (or a failed
\* request) ends the series.
BackfillFetchWith(ok) ==
    /\ bf.pc = "fetch"
    /\ LET klines_data == fetch_klines(TIME_FRAMES[bf.tf], bf.start_time, now, ok)
       IN  bf' = IF klines_data = <<>> THEN NextSeries
                 ELSE [bf EXCEPT !.pc = "merge", !.page = klines_data, !.i = 1]
    /\ UNCHANGED <<symbols, store, now, relay, kline_models, outsideCandles>>

BackfillFetch == \E ok \in BOOLEAN : BackfillFetchWith(ok)

\* session.merge of the page's next kline: the pending operation of the
\* previous one is flushed first (autoflush), inside the transaction that the
\* first write opens; a failed flush is the series' exception (rollback).
BackfillMerge ==
    /\ bf.pc = "merge"
    /\ LET base == IF bf.intxn THEN bf.view ELSE store[BfSeries]
           began == bf.intxn \/ bf.pending.kind # "NONE"
           after == Flushed(base, bf.pending)
       IN  bf' = IF ~FlushOk(base, bf.pending) THEN OnSeriesError
                 ELSE [bf EXCEPT
                        !.pending = MergeOp(after, bf.page[bf.i]),
                        !.view = IF began THEN after ELSE <<>>,
                        !.intxn = began,
                        !.i = bf.i + 1,
                        !.pc = IF bf.i = Len(bf.page) THEN "commit" ELSE "merge"]
    /\ UNCHANGED <<symbols, store, now, relay, kline_models, outsideCandles>>

\* session.commit of the page, then the next start_time; a short page ends
\* the series.
BackfillCommit ==
    /\ bf.pc = "commit"
    /\ LET base == IF bf.intxn THEN bf.view ELSE store[BfSeries]
       IN  IF ~FlushOk(base, bf.pending)
           THEN /\ bf' = OnSeriesError
                /\ store' = store
           ELSE /\ store' = [store EXCEPT ![BfSeries] = Flushed(base, bf.pending)]
                /\ bf' = IF Len(bf.page) < KLINE_LIMIT THEN NextSeries
                          ELSE [bf EXCEPT
                                 !.pc = "fetch",
                                 !.start_time = NextStartTime(bf.page),
                                 !.page = <<>>, !.i = 1, !.pending = NoOp,
                                 !.view = <<>>, !.intxn = FALSE]
    /\ UNCHANGED <<symbols, now, relay, kline_models, outsideCandles>>

\* _handle_kline_message up to session.merge. A message that is not JSON is
\* logged as a warning; one without stream, data or kline, or whose kline is
\* not flagged closed, is dropped; a kline without symbol or interval is a
\* KeyError logged by the outer handler. The model of the series is created on
\* first use, which fails when the timeframe's table is already declared for
\* another symbol. A candle field missing is a KeyError inside the session's
\* try: logged as a DB error and rolled back.
HandleMessage(msg) ==
    LET key == <<msg.event.s, msg.event.i>>
    IN  IF msg.form = "not_json"
            THEN /\ relay' = CaughtByHandler("warning")
                 /\ kline_models' = kline_models
        ELSE IF msg.form \in {"no_stream", "no_data", "no_k"} \/ ~IsClosedEvent(msg)
            THEN /\ relay' = RelayIdle("ignored")
                 /\ kline_models' = kline_models
        ELSE IF msg.form = "no_symbol"
                \/ (key \notin kline_models /\ msg.event.i \in DeclaredTables)
            THEN /\ relay' = CaughtByHandler("error")
                 /\ kline_models' = kline_models
        ELSE IF msg.form = "no_field"
            THEN /\ relay' = RelayIdle("db_error")
                 /\ kline_models' = kline_models \cup {key}
        ELSE /\ relay' = RelayState("merged", key,
                                    MergeOp(store[key], msg.event.k), "")
             /\ kline_models' = kline_models \cup {key}

\* The handler is called with a message of the stream.
RelayReceive ==
    /\ relay.pc = "idle"
    /\ \E msg \in StreamMessages(now) : HandleMessage(msg)
    /\ UNCHANGED <<symbols, store, now, bf, outsideCandles>>

\* session.commit in the handler: the pending operation is flushed and
\* committed, and "Updated kline for <symbol> [<interval>] at <open_time>" is
\* logged (the record keeps the series and the operation of that line).
RelayCommit ==
    /\ relay.pc = "merged"
    /\ ~LockedByBackfill(relay.series[1])
    /\ FlushOk(store[relay.series], relay.pending)
    /\ store' = [store EXCEPT ![relay.series] = Flushed(@, relay.pending)]
    /\ relay' = RelayState("idle", relay.series, relay.pending, "updated")
    /\ UNCHANGED <<symbols, now, bf, kline_models, outsideCandles>>

\* The handler's except branch: the database stayed locked by another writer,
\* or the flush violated the primary key; logged and rolled back.
RelayDbError ==
    /\ relay.pc = "merged"
    /\ LockedByBackfill(relay.series[1])
        \/ ~FlushOk(store[relay.series], relay.pending)
    /\ relay' = RelayIdle("db_error")
    /\ UNCHANGED <<symbols, store, now, bf, kline_models, outsideCandles>>

NextCandles ==
    \/ Tick
    \/ BackfillBegin
    \/ BackfillWatermark
    \/ BackfillFetch
    \/ BackfillMerge
    \/ BackfillCommit
    \/ RelayReceive
    \/ RelayCommit
    \/ RelayDbError

SpecCandles == InitCandles /\ [][NextCandles]_vars

-----------------------------------------------------------------------------
(* Specification of one backfill cycle alone, over two symbols, while candles
   close: requests fail or not, and the processing of a page can raise. *)

InitBackfill ==
    /\ symbols = Symbols
    /\ store = [k \in SeriesSet |-> <<>>]
    /\ now = 0
    /\ bf = BackfillIdle
    /\ relay = RelayIdle("")
    /\ kline_models = {}
    /\ IdleOutsideRelay
    /\ IdleStream

\* An exception between the fetch and the commit of a page (a kline that does
\* not convert, a database error): the series' except branch.
BackfillProcessingError ==
    /\ bf.pc \in {"merge", "commit"}
    /\ bf' = OnSeriesError
    /\ UNCHANGED <<symbols, store, now, relay, kline_models, outsideCandles>>

\* The cycle starts.
CycleBegin ==
    /\ bf.pc = "idle"
    /\ BackfillBegin

NextBackfill ==
    \/ Tick
    \/ CycleBegin
    \/ BackfillWatermark
    \/ BackfillFetch
    \/ BackfillMerge
    \/ BackfillCommit
    \/ BackfillProcessingError

SpecBackfill == InitBackfill /\ [][NextBackfill]_vars

\* Every step of a running backfill is taken in the end: requests time out
\* after 15 seconds and database calls return.
BackfillFairness ==
    /\ WF_vars(BackfillWatermark)
    /\ WF_vars(BackfillFetch)
    /\ WF_vars(BackfillMerge)
    /\ WF_vars(BackfillCommit)

SpecBackfillFair == SpecBackfill /\ BackfillFairness

-----------------------------------------------------------------------------
(* Specification of backfill cycles that follow one another over one symbol
   while candles close: requests fail or not, the processing of a page can
   raise, and the next cycle resumes from what is stored. *)

\* A rollback that keeps what was flushed of the page before the exception.
RollbackKeepingFlushed(tbl, b) == IF b.intxn THEN b.view ELSE tbl

\* session.rollback(): what the page's transaction wrote is undone and its
\* pending operation is dropped; the table is as the last commit left it.
Rollback(tbl, b) == tbl

\* An exception while a page is processed (a kline that does not convert, a
\* database error): control is in the series' except branch.
PageFails ==
    /\ bf.pc \in {"merge", "commit"}
    /\ bf' = [bf EXCEPT !.pc = "except"]
    /\ UNCHANGED <<symbols, store, now, relay, kline_models, outsideCandles>>

\* The except branch and the finally clause: the error is logged, the session
\* rolled back and closed, and the timeframe loop goes on.
SeriesRollback ==
    /\ bf.pc = "except"
    /\ store' = [store EXCEPT ![BfSeries] = Rollback(@, bf)]
    /\ bf' = OnSeriesError
    /\ UNCHANGED <<symbols, now, relay, kline_models, outsideCandles>>

NextBackfillResume ==
    \/ Tick
    \/ BackfillBegin
    \/ BackfillWatermark
    \/ BackfillFetch
    \/ BackfillMerge
    \/ BackfillCommit
    \/ PageFails
    \/ SeriesRollback

SpecBackfillResume == InitCandles /\ [][NextBackfillResume]_vars

-----------------------------------------------------------------------------
(* Specification of gap healing: the relay stores some of the closed candles
   (it misses the others while disconnected), then one backfill cycle runs
   whose requests all succeed. *)

RelayBeforeCycle ==
    /\ bf.pc = "idle"
    /\ RelayReceive \/ RelayCommit

NextCycleBegin ==
    /\ bf.pc = "idle"
    /\ relay.pc = "idle"
    /\ BackfillBegin

NextGapHeal ==
    \/ Tick
    \/ RelayBeforeCycle
    \/ NextCycleBegin
    \/ BackfillWatermark
    \/ BackfillFetchWith(TRUE)
    \/ BackfillMerge
    \/ BackfillCommit

SpecGapHeal == InitCandles /\ [][NextGapHeal]_vars

-----------------------------------------------------------------------------
(* Specification of the relay alone: _connect_and_stream's loop around the
   message handler, with connections that fail or close and messages that
   are damaged *)

\* Where the loop goes after a connection error: the log line and the sleep.
Retrying == "backoff"

\* A loop that a connection error ends.
LoopExited == "stopped"

\* except websockets.ConnectionClosed / except Exception: the error is
\* logged and the loop body runs on to "Retrying in 10 seconds...".
AfterConnectionError == Retrying

InitRelay ==
    /\ symbols = <<"BTCUSDT">>
    /\ store = [k \in SeriesSet |-> <<>>]
    /\ now = 0
    /\ bf = BackfillIdle
    /\ relay = RelayIdle("")
    /\ kline_models = {}
    /\ IdleStream
    /\ IdleOutsideRelay

\* websockets.connect: the socket opens, or the attempt raises.
Connect ==
    /\ conn = "connecting"
    /\ \E opened \in BOOLEAN :
         conn' = IF opened THEN "connected" ELSE AfterConnectionError
    /\ UNCHANGED <<received, candleVars, outsideRelay>>

\* ws.recv() returns a message and the handler is awaited with it.
StreamRecv ==
    /\ conn = "connected"
    /\ relay.pc = "idle"
    /\ \E msg \in StreamMessages(now) :
         /\ HandleMessage(msg)
         /\ received' = Received(msg.form, 1 - received.parity)
    /\ UNCHANGED <<conn, symbols, store, now, bf, outsideRelay>>

\* ws.recv() raises: the connection was closed.
ConnectionLost ==
    /\ conn = "connected"
    /\ relay.pc = "idle"
    /\ conn' = AfterConnectionError
    /\ UNCHANGED <<received, candleVars, outsideRelay>>

\* asyncio.sleep(10) returns and the outer loop starts over.
BackoffElapsed ==
    /\ conn = "backoff"
    /\ conn' = "connecting"
    /\ UNCHANGED <<received, candleVars, outsideRelay>>

NextRelay ==
    \/ Tick
    \/ Connect
    \/ StreamRecv
    \/ RelayCommit
    \/ ConnectionLost
    \/ BackoffElapsed

SpecRelay == InitRelay /\ [][NextRelay]_vars

\* A connect attempt ends (it opens the socket or raises) and the sleep
\* returns.
RelayFairness == WF_vars(Connect) /\ WF_vars(BackoffElapsed)

SpecRelayFair == SpecRelay /\ RelayFairness

\* The relay streaming two symbols on every timeframe.
InitRelaySymbols ==
    /\ symbols = Symbols
    /\ store = [k \in SeriesSet |-> <<>>]
    /\ now = 0
    /\ bf = BackfillIdle
    /\ relay = RelayIdle("")
    /\ kline_models = {}
    /\ IdleStream
    /\ IdleOutsideRelay

SpecRelaySymbols == InitRelaySymbols /\ [][NextRelay]_vars

-----------------------------------------------------------------------------
(* Specification of run_backtest: one run over some stored, prepared frames *)

InitBacktest ==
    /\ \E base \in [1..MaxBaseRows -> BaseKinds],
          hour \in [1..Len(HourOpenTimes) -> CoarseKinds \ {"nan"}],
          four \in [1..Len(FourHourOpenTimes) -> CoarseKinds \ {"absent"}] :
            kline_data_full =
                [tf \in Timeframes |->
                    IF tf = "15m" THEN BaseFrame(base)
                    ELSE IF tf = "1h" THEN CoarseFrame(hour, HourOpenTimes)
                    ELSE CoarseFrame(four, FourHourOpenTimes)]
    /\ starting_capital \in StartingCapitals
    /\ aligned_df = <<>>
    /\ bt = BacktestIdle
    /\ replay = BacktestIdle
    /\ IdleOutsideBacktest

\* Steps 1 to 4 up to the loop: a timeframe without rows ends the run; else
\* the frames are aligned and the portfolio starts in cash.
LoadAndAlign ==
    /\ bt.pc = "start"
    /\ IF \E tf \in Timeframes : kline_data_full[tf] = <<>>
        THEN /\ bt' = [bt EXCEPT !.pc = "returned"]
             /\ aligned_df' = aligned_df
        ELSE /\ aligned_df' = Align(kline_data_full)
             /\ bt' = StartLoop(bt, starting_capital)
    /\ UNCHANGED <<kline_data_full, starting_capital, replay, outsideBacktest>>

\* One iteration of the loop: the strategy's signal for the row, then the
\* trade that signal and position allow.
SimulateRow ==
    /\ bt.pc = "loop"
    /\ bt.i <= Len(aligned_df)
    /\ bt' = LoopBody(bt, aligned_df)
    /\ UNCHANGED <<kline_data_full, starting_capital, aligned_df, replay, outsideBacktest>>

\* The loop is over: the final report.
FinishBacktest ==
    /\ bt.pc = "loop"
    /\ bt.i > Len(aligned_df)
    /\ bt' = Finish(bt, aligned_df, starting_capital)
    /\ UNCHANGED <<kline_data_full, starting_capital, aligned_df, replay, outsideBacktest>>

NextBacktest ==
    \/ LoadAndAlign
    \/ SimulateRow
    \/ FinishBacktest

SpecBacktest == InitBacktest /\ [][NextBacktest]_vars

-----------------------------------------------------------------------------
(* Specification of two runs of the simulation over one aligned frame with
   one starting capital; the second run may start as soon as the frame is
   aligned and follows the first at any distance, never ahead of it *)

ReplayStart ==
    /\ bt.pc \in {"loop", "done"}
    /\ replay.pc = "start"
    /\ replay' = StartLoop(replay, starting_capital)
    /\ UNCHANGED <<kline_data_full, starting_capital, aligned_df, bt, outsideBacktest>>

ReplayRow ==
    /\ replay.pc = "loop"
    /\ replay.i <= Len(aligned_df)
    /\ replay.i < bt.i
    /\ replay' = LoopBody(replay, aligned_df)
    /\ UNCHANGED <<kline_data_full, starting_capital, aligned_df, bt, outsideBacktest>>

ReplayFinish ==
    /\ bt.pc = "done"
    /\ replay.pc = "loop"
    /\ replay.i > Len(aligned_df)
    /\ replay' = Finish(replay, aligned_df, starting_capital)
    /\ UNCHANGED <<kline_data_full, starting_capital, aligned_df, bt, outsideBacktest>>

NextBacktestTwice ==
    \/ NextBacktest
    \/ ReplayStart
    \/ ReplayRow
    \/ ReplayFinish

SpecBacktestTwice == InitBacktest /\ [][NextBacktestTwice]_vars

-----------------------------------------------------------------------------
(* Properties of the decision function (SpecStrategy) *)

AllPresent == Timeframes \subseteq DOMAIN latest_candles
Called == decision.signal # "none"

\* The decision rule as the design states it, on the rows of latest_candles.
BullishRule ==
    LET h4 == latest_candles["4h"]
        h1 == latest_candles["1h"]
        m15 == latest_candles["15m"]
    IN  /\ \A r \in {h4, h1} : Gt(r.ema9, r.ema20) /\ Gt(r.ema20, r.ema50)
        /\ \A r \in {h4, h1, m15} : r.supertrend_direction = 1
        /\ Ge(m15.rsi14, 45) /\ Le(m15.rsi14, 65)
        /\ Gt(m15.volume_avg20, 10)
        /\ Gt(m15.close, m15.vwap_approx)

BearishRule ==
    LET h4 == latest_candles["4h"]
        h1 == latest_candles["1h"]
        m15 == latest_candles["15m"]
    IN  /\ \A r \in {h4, h1} : Lt(r.ema9, r.ema20) /\ Lt(r.ema20, r.ema50)
        /\ \A r \in {h4, h1, m15} : r.supertrend_direction = -1
        /\ Ge(m15.rsi14, 35) /\ Le(m15.rsi14, 55)
        /\ Lt(m15.volume_avg20, 0 - 10)
        /\ Lt(m15.close, m15.vwap_approx)

\* C7: with a latest row for 15m, 1h and 4h, get_signal returns
\* (BUY, 15m, open_time of the 15m row) exactly when the bullish rule holds,
\* (SELL, 15m, open_time of the 15m row) exactly when the bearish rule holds,
\* and (HOLD, None, None) otherwise.
C7_DecisionRule ==
    (Called /\ AllPresent) =>
        LET t == latest_candles["15m"].open_time
        IN  /\ (decision = Decision("BUY", "15m", t)) <=> BullishRule
            /\ (decision = Decision("SELL", "15m", t)) <=> BearishRule
            /\ (~BullishRule /\ ~BearishRule) => decision = Hold
            /\ decision.signal \in {"BUY", "SELL", "HOLD"}

C7_Witness ==
    /\ Called /\ AllPresent
    /\ decision = Decision("SELL", "15m", 17)
    /\ latest_candles["15m"].rsi14 = 35

\* C8: when the map lacks one of 15m, 1h, 4h, get_signal returns
\* (HOLD, None, None) and raises nothing, whatever the rows present hold.
C8_MissingTimeframeHolds ==
    (Called /\ ~AllPresent) => decision = Hold

C8_Witness ==
    /\ Called
    /\ DOMAIN latest_candles = {"15m", "1h"}
    /\ BuyConditions(latest_candles["1h"], latest_candles["1h"], latest_candles["15m"])
    /\ decision = Hold

\* C9: on no combination of latest rows do the BUY conditions and the SELL
\* conditions of get_signal hold together.
C9_BuySellExclusive ==
    AllPresent =>
        ~(/\ BuyConditions(latest_candles["4h"], latest_candles["1h"],
                           latest_candles["15m"])
          /\ SellConditions(latest_candles["4h"], latest_candles["1h"],
                            latest_candles["15m"]))

C9_Witness ==
    /\ Called /\ AllPresent
    /\ BuyConditions(latest_candles["4h"], latest_candles["1h"],
                     latest_candles["15m"])
    /\ latest_candles["15m"].rsi14 \in 45..55
    /\ decision.signal = "BUY"

-----------------------------------------------------------------------------
(* Properties of the supertrend (SpecTrend) *)

\* C6: over any run of 3 or more consecutive rows whose direction is up and
\* unchanged, the stored lower band never decreases from one row to the next.
C6_LowerBandRatchet ==
    \A i \in 1..Len(st) :
        (i + 2 <= Len(st) /\ \A j \in i..(i + 2) : st[j].supertrend_direction = 1)
            => /\ st[i].lower_band <= st[i + 1].lower_band
               /\ st[i + 1].lower_band <= st[i + 2].lower_band

-----------------------------------------------------------------------------
(* Properties of the signal store (SpecSignals) *)

SameKey(a, b) ==
    /\ a.symbol = b.symbol
    /\ a.strategy = b.strategy
    /\ a.timeframe = b.timeframe
    /\ a.kline_open_time = b.kline_open_time

\* C1: after any sequence of evaluation cycles run one after another, no two
\* rows of the signal store have the same (symbol, strategy, timeframe,
\* kline_open_time).
C1_SignalKeyUnique ==
    \A i, j \in 1..Len(signals) : SameKey(signals[i], signals[j]) => i = j

\* A cycle decided non-HOLD signals for both symbols, every one of them for a
\* key the store already held, and added no row.
C1_Witness ==
    /\ cycle.agent = "SignalAgent"
    /\ cycle.decided = SymbolSet
    /\ cycle.added = 0
    /\ \A s \in cycle.decided :
           \E i \in 1..Len(signals) :
               /\ signals[i].symbol = s
               /\ signals[i].kline_open_time = latest_open[s]
    /\ \E s \in SymbolSet : latest_open[s] > 0

-----------------------------------------------------------------------------
(* Properties of the kline tables (SpecCandles) *)

Rows(tbl) == {tbl[i] : i \in 1..Len(tbl)}
OpenTimes(tbl) == [i \in 1..Len(tbl) |-> tbl[i].open_time]
RowsAt(tbl, t) == SelectSeq(tbl, LAMBDA x : x.open_time = t)
RowsOutside(tbl, ts) == SelectSeq(tbl, LAMBDA x : x.open_time \notin ts)

\* The relay's handler commits the candle it merged.
RelayUpserts == relay.pc = "merged" /\ relay'.pc = "idle" /\ relay'.log = "updated"

\* The backfill leaves the commit of a page.
BackfillCommits == bf.pc = "commit" /\ bf' # bf

\* Table `new` is table `old` after an upsert of the candles `written`: a
\* candle that was already stored with the same values is stored once, with
\* those values; the other candles are as they were; and when all of them were
\* already stored, nothing changed.
UpsertedAgain(old, new, written) ==
    /\ \A r \in written \cap Rows(old) : RowsAt(new, r.open_time) = <<r>>
    /\ RowsOutside(new, {r.open_time : r \in written})
            = RowsOutside(old, {r.open_time : r \in written})
    /\ written \subseteq Rows(old) => new = old

\* C2: upserting a closed candle that is already stored with the same values,
\* through the relay's handler or through a backfill page, leaves the series
\* with the same rows and values as before: however often the candle is
\* upserted, the series is as after the first time.
C2_IdempotentUpsert ==
    [][ /\ RelayUpserts =>
            /\ UpsertedAgain(store[relay.series], store'[relay.series],
                             {relay.pending.row})
            /\ \A k \in SeriesSet \ {relay.series} : store'[k] = store[k]
        /\ BackfillCommits =>
            /\ UpsertedAgain(store[BfSeries], store'[BfSeries], Rows(bf.page))
            /\ \A k \in SeriesSet \ {BfSeries} : store'[k] = store[k]
      ]_vars

\* The relay has committed, as an UPDATE, a closed candle that was stored with
\* the same values before, and the series holds that one row for it.
C2_Witness ==
    /\ relay.pc = "idle" /\ relay.log = "updated"
    /\ relay.pending.kind = "UPDATE"
    /\ relay.pending.row = KlineRow(0, 10)
    /\ RowsAt(store[relay.series], 0) = <<KlineRow(0, 10)>>
    /\ Len(store[relay.series]) > 1

KeysUnique(tbl) == \A i, j \in 1..Len(tbl) : tbl[i].open_time = tbl[j].open_time => i = j

\* C3: in every reachable state, whatever the interleaving of backfill pages
\* and relay upserts, no two stored candles of a series share an open_time
\* (the backfill's own uncommitted view included), and an upsert of an
\* open_time that is already stored leaves the number of rows as it was.
C3_OpenTimeUnique ==
    /\ [](\A k \in SeriesSet : KeysUnique(store[k]))
    /\ [](KeysUnique(bf.view))
    /\ [][ /\ RelayUpserts /\ HasKey(store[relay.series], relay.pending.row.open_time)
                => Len(store'[relay.series]) = Len(store[relay.series])
           /\ BackfillCommits =>
                Len(store'[BfSeries]) - Len(store[BfSeries])
                    <= Cardinality({r.open_time : r \in Rows(bf.page)}
                            \ {r.open_time : r \in Rows(store[BfSeries])})
         ]_vars

\* The 15m series holds open times 0, 1, 2 and the relay has just committed an
\* upsert of open_time 1 that found it stored: still three rows.
C3_Witness ==
    /\ OpenTimes(store[<<"BTCUSDT", "15m">>]) = <<0, 1, 2>>
    /\ relay.pc = "idle" /\ relay.log = "updated"
    /\ relay.series = <<"BTCUSDT", "15m">>
    /\ relay.pending.kind = "UPDATE"
    /\ relay.pending.row.open_time = 1

-----------------------------------------------------------------------------
(* Properties of run_backtest (SpecBacktest) *)

\* C5: every row of the aligned frame pairs its 15m row with a 1h row and a 4h
\* row whose open_time is at or before the 15m row's; none is paired with a
\* coarser row that opens later.
C5_NoLookahead ==
    \A i \in 1..Len(aligned_df) :
        /\ aligned_df[i].timestamp = aligned_df[i].r15m.open_time
        /\ aligned_df[i].r1h.open_time <= aligned_df[i].timestamp
        /\ aligned_df[i].r4h.open_time <= aligned_df[i].timestamp

\* The aligned frame has a row at 15 paired with the 1h row of 12 and the 4h
\* row of 0 although rows of 16 are stored, and a row at 16 paired with those.
C5_Witness ==
    /\ bt.pc = "loop"
    /\ Len(kline_data_full["1h"]) = 2 /\ Len(dropna(kline_data_full["4h"])) = 2
    /\ Len(aligned_df) >= 2
    /\ aligned_df[1].timestamp = 15
    /\ aligned_df[1].r1h.open_time = 12 /\ aligned_df[1].r4h.open_time = 0
    /\ aligned_df[2].timestamp = 16
    /\ aligned_df[2].r1h.open_time = 16 /\ aligned_df[2].r4h.open_time = 16

InCash(pf) == FracPositive(pf.cash) /\ pf.asset_held = FracZero
Invested(pf) == pf.cash = FracZero /\ FracPositive(pf.asset_held)

\* C4: after any prefix of the aligned rows the portfolio is either all cash
\* (cash > 0, asset_held = 0) or all asset (cash = 0, asset_held > 0), exactly
\* one of the two when the starting capital is positive; never are both
\* positive, and both are zero only when the starting capital is zero.
C4_PortfolioConservation ==
    bt.pc \in {"loop", "done"} =>
        /\ ~(FracPositive(bt.portfolio.cash) /\ FracPositive(bt.portfolio.asset_held))
        /\ bt.portfolio.cash = FracZero /\ bt.portfolio.asset_held = FracZero
                => starting_capital = 0
        /\ starting_capital > 0 => (InCash(bt.portfolio) # Invested(bt.portfolio))
        /\ starting_capital > 0 => (InCash(bt.portfolio) <=> bt.portfolio.position = "OUT")

\* A run with positive capital has bought at 12 and passed a SELL-less row
\* since: it holds 250/3 of the asset and no cash.
C4_Witness ==
    /\ bt.pc = "loop"
    /\ starting_capital = 1000
    /\ bt.i = 3
    /\ Len(bt.portfolio.trades) = 1
    /\ bt.portfolio.cash = FracZero
    /\ bt.portfolio.asset_held = <<250, 3>>

\* The loop processed a row: the signal, and the row's 15m close.
Simulated == bt.pc = "loop" /\ bt'.pc = "loop" /\ bt'.i = bt.i + 1
CurrentPrice == aligned_df[bt.i].r15m.close
LastTrade(pf) == pf.trades[Len(pf.trades)]

\* C10: a BUY while OUT at the row's 15m close p turns all cash into cash/p of
\* asset and records one buy; a SELL while IN at close q turns all asset into
\* asset_held*q of cash and records one sell; so a run whose trades are one
\* BUY at p then one SELL at q reports C*q/p, a profit of (q/p - 1)*100
\* percent and 2 trades.
C10_TradeArithmetic ==
    /\ [][ /\ Simulated /\ bt'.signal = "BUY" /\ bt.portfolio.position = "OUT" =>
                /\ FracMul(bt'.portfolio.asset_held, CurrentPrice) = bt.portfolio.cash
                /\ bt'.portfolio.cash = FracZero
                /\ bt'.portfolio.position = "IN"
                /\ Len(bt'.portfolio.trades) = Len(bt.portfolio.trades) + 1
                /\ LastTrade(bt'.portfolio).type = "BUY"
                /\ LastTrade(bt'.portfolio).price = CurrentPrice
           /\ Simulated /\ bt'.signal = "SELL" /\ bt.portfolio.position = "IN" =>
                /\ bt'.portfolio.cash = FracMul(bt.portfolio.asset_held, CurrentPrice)
                /\ bt'.portfolio.asset_held = FracZero
                /\ bt'.portfolio.position = "OUT"
                /\ Len(bt'.portfolio.trades) = Len(bt.portfolio.trades) + 1
                /\ LastTrade(bt'.portfolio).type = "SELL"
                /\ LastTrade(bt'.portfolio).price = CurrentPrice
           /\ Simulated /\ ~(bt'.signal = "BUY" /\ bt.portfolio.position = "OUT")
                       /\ ~(bt'.signal = "SELL" /\ bt.portfolio.position = "IN") =>
                bt'.portfolio = bt.portfolio
         ]_vars
    /\ [](bt.pc = "done" /\ starting_capital > 0 /\ bt.portfolio.position = "OUT"
            /\ Len(bt.portfolio.trades) = 2 =>
            LET p == bt.portfolio.trades[1].price
                q == bt.portfolio.trades[2].price
            IN  /\ bt.report.status = "finished"
                /\ bt.report.final_value = Frac(starting_capital * q, p)
                /\ bt.report.profit_percent = Frac((q - p) * 100, p)
                /\ bt.report.total_trades = 2)

\* Capital 1000, one BUY at 10, one SELL at 12: 1200, 20 percent, 2 trades.
C10_Witness ==
    /\ bt.pc = "done"
    /\ starting_capital = 1000
    /\ Len(bt.portfolio.trades) = 2
    /\ bt.portfolio.trades[1].type = "BUY" /\ bt.portfolio.trades[1].price = 10
    /\ bt.portfolio.trades[2].type = "SELL" /\ bt.portfolio.trades[2].price = 12
    /\ bt.report.final_value = <<1200, 1>>
    /\ bt.report.profit_percent = <<20, 1>>
    /\ bt.report.total_trades = 2

-----------------------------------------------------------------------------
(* Properties of the relay's handler (SpecCandles) *)

\* The handler has returned from a message without a commit.
RelayDrops == relay' # relay /\ relay'.pc = "idle" /\ relay'.log # "updated"

\* C11: the relay writes only for events flagged closed: a message it drops
\* (closed flag false or absent among them) leaves every series as it was, and
\* every row it commits is the final row of a candle that has closed.
C11_OnlyClosedEventsStored ==
    [][ /\ relay.pc = "idle" /\ RelayDrops => store' = store
        /\ relay.pc = "idle" /\ relay'.pc = "merged" =>
                /\ store' = store
                /\ CandleClosed(relay'.series[2], relay'.pending.row.open_time, now)
                /\ relay'.pending.row
                    = ExchangeKline(relay'.series[2], relay'.pending.row.open_time, now)
        /\ RelayUpserts =>
                CandleClosed(relay.series[2], relay.pending.row.open_time, now)
      ]_vars

\* The 15m candle of 1 is open and stored with its provisional values (by the
\* backfill), and the relay has just dropped a message: the row is as it was.
C11_Witness ==
    /\ now = 1
    /\ relay.pc = "idle" /\ relay.log = "ignored"
    /\ RowsAt(store[<<"BTCUSDT", "15m">>], 1) = <<ExchangeKline("15m", 1, 1)>>
    /\ RowsAt(store[<<"BTCUSDT", "15m">>], 0) = <<ExchangeKline("15m", 0, 1)>>

-----------------------------------------------------------------------------
(* Properties of gap healing (SpecGapHeal) *)

\* The table holds every candle the exchange has of the timeframe between its
\* earliest and its latest stored open_time.
NoGap(tbl, tf) ==
    tbl # <<>> =>
        \A t \in tbl[1].open_time..tbl[Len(tbl)].open_time :
            t % TfUnits(tf) = 0 => HasKey(tbl, t)

\* C12: when the relay missed closed candles of a series and stored a newer
\* one, the next backfill cycle heals the gap: once that cycle has completed
\* without fetch errors, every series holds every candle the exchange has
\* between its earliest and latest stored open_time.
C12_GapHealedByBackfill ==
    bf.pc = "finished" => \A k \in SeriesSet : NoGap(store[k], k[2])

-----------------------------------------------------------------------------
(* Properties of the backfill cycle (SpecBackfill, SpecBackfillFair) *)

InPageLoop(b) == b.pc \in {"fetch", "merge", "commit"}
AtSeries(n, j) == bf.pc = "watermark" /\ bf.sym = n /\ bf.tf = j

\* The backfill goes from the series it is at to the next one of the cycle, or
\* returns after the last.
EntersNextSeries ==
    IF bf.tf < Len(TIME_FRAMES)
        THEN bf'.pc = "watermark" /\ bf'.sym = bf.sym /\ bf'.tf = bf.tf + 1
    ELSE IF bf.sym < Len(symbols)
        THEN bf'.pc = "watermark" /\ bf'.sym = bf.sym + 1 /\ bf'.tf = 1
    ELSE bf'.pc = "finished"

\* C13: a fetch error or a processing error of one series ends only that
\* series' sync: however a series' page loop is left, the cycle goes on with
\* the next series, the rows of the other series are as they were, and a
\* cycle that has started comes to every series of every symbol.
C13_SeriesFailureIsolated ==
    /\ [][ InPageLoop(bf) /\ ~InPageLoop(bf') =>
                /\ EntersNextSeries
                /\ \A k \in SeriesSet \ {BfSeries} : store'[k] = store[k]
         ]_vars
    /\ \A n \in 1..Len(Symbols), j \in 1..Len(TIME_FRAMES) :
            AtSeries(1, 1) ~> AtSeries(n, j)

\* A cycle has finished in which the sync of the first symbol's 15m series
\* failed (nothing is stored of it) while its 1h series and the second
\* symbol's 15m series were synchronized.
C13_Witness ==
    /\ bf.pc = "finished"
    /\ store[<<"BTCUSDT", "15m">>] = <<>>
    /\ store[<<"BTCUSDT", "1h">>] # <<>>
    /\ store[<<"ETHUSDT", "15m">>] # <<>>

InPageLoopOf(n, j) == InPageLoop(bf) /\ bf.sym = n /\ bf.tf = j

\* C14: the sync of a series always terminates (the exchange holds finitely
\* many candles and a page holds only candles at or after the requested
\* start): the page loop is left at the first empty page and after the first
\* page shorter than the page capacity, and each full page moves start_time
\* forward.
C14_SeriesSyncTerminates ==
    /\ \A n \in 1..Len(Symbols), j \in 1..Len(TIME_FRAMES) :
            InPageLoopOf(n, j) ~> ~InPageLoopOf(n, j)
    /\ [][ /\ bf.pc = "fetch" /\ bf'.pc = "merge" =>
                /\ bf'.page # <<>>
                /\ Len(bf'.page) <= KLINE_LIMIT
                /\ \A r \in Rows(bf'.page) : r.open_time >= bf.start_time
           /\ bf.pc = "commit" /\ bf' # bf /\ Len(bf.page) < KLINE_LIMIT =>
                ~InPageLoop(bf')
           /\ bf.pc = "commit" /\ bf'.pc = "fetch" =>
                /\ Len(bf.page) = KLINE_LIMIT
                /\ bf'.start_time > bf.start_time
         ]_vars

\* The first 15m series was synchronized by a full page and a shorter one,
\* and the cycle is at the next series.
C14_Witness ==
    /\ AtSeries(1, 2)
    /\ Len(store[<<"BTCUSDT", "15m">>]) = KLINE_LIMIT + 1

\* The rows of the signal store that hold a key.
RowsOfKey(symbol, strategy, timeframe, kline_time) ==
    {i \in 1..Len(signals) :
        /\ signals[i].symbol = symbol
        /\ signals[i].strategy = strategy
        /\ signals[i].timeframe = timeframe
        /\ signals[i].kline_open_time = kline_time}

\* C15: two evaluation cycles that overlap on the signal store and decide the
\* same non-HOLD signal for the same (symbol, strategy, timeframe, open_time)
\* leave, once both have finished, one row for that key and never more,
\* however their check and insert steps interleave.
C15_OneRowUnderConcurrency ==
    (\A a \in Agents : writers[a].pc = "finished") =>
        \A sym \in SymbolSet, t \in 0..MaxNewCandles :
            Cardinality(RowsOfKey(sym, StrategyName, "15m", t)) <= 1

\* The relay's upsert ends in its except branch: logged and rolled back.
RelayUpsertAborted ==
    relay.pc = "merged" /\ relay'.pc = "idle" /\ relay'.log = "db_error"

\* The backfill leaves a page without having committed it: out of the merge
\* loop, or out of a commit whose pending INSERT did not reach the table.
BackfillPageAborted ==
    \/ bf.pc = "merge" /\ bf'.pc \notin {"merge", "commit"}
    \/ /\ bf.pc = "commit" /\ bf'.pc # "commit"
       /\ bf.pending.kind = "INSERT"
       /\ store'[BfSeries] = store[BfSeries]

\* C16: the backfill and the relay writing to the same series are serialized:
\* every upsert of either takes effect, none of the relay's upserts and none
\* of the backfill's pages is aborted because of the other writer.
C16_WritesSerialized ==
    [][~RelayUpsertAborted /\ ~BackfillPageAborted]_vars

\* C17: within one evaluation cycle a failure in one symbol's work (loading,
\* indicators, deciding, storing) does not keep the other symbols from being
\* processed: when the cycle is over, on either path, every symbol whose own
\* work does not fail has been processed to its end.
C17_SymbolFailureIsolated ==
    evaluation.phase \in {"finished", "raised"} =>
        \A sym \in SymbolSet :
            evaluation.faults[sym] = "none" => sym \in evaluation.completed

\* C18: every row the simulator evaluates pairs its 15m candle with a 1h and a
\* 4h candle that had closed by the time the 15m candle closed: their
\* close_time is not after the 15m candle's close_time.
C18_PairedCandlesClosed ==
    \A i \in 1..Len(aligned_df) :
        i < bt.i =>
            /\ CloseTime("1h", aligned_df[i].r1h.open_time)
                    <= CloseTime("15m", aligned_df[i].timestamp)
            /\ CloseTime("4h", aligned_df[i].r4h.open_time)
                    <= CloseTime("15m", aligned_df[i].timestamp)

\* A message was taken from the socket and handled in this step.
Handled == received'.parity # received.parity

\* C19: a malformed push message (not JSON, without stream, data or kline
\* part, without the closed flag or a required candle field) is discarded:
\* handling it leaves every series as it was, raises nothing to the receive
\* loop (the connection stays open) and the handler is back for the next
\* message.
C19_MalformedMessageDiscarded ==
    [][ Handled /\ received'.form \in MalformedForms =>
            /\ store' = store
            /\ relay'.pc = "idle"
            /\ conn' = "connected" ]_vars

\* A stored series, and the last message handled was one without candle
\* fields (or one that was not JSON) while the connection is still open.
C19_Witness ==
    /\ store[<<"BTCUSDT", "15m">>] # <<>>
    /\ received.form \in {"no_field", "not_json"}
    /\ relay.pc = "idle" /\ relay.log \in {"db_error", "warning"}
    /\ conn = "connected"

\* C20: after the connection is closed or a connect attempt fails the relay
\* waits its fixed backoff and connects again, indefinitely: no connection
\* error ends the loop, an error always leads into the backoff, and every
\* backoff is followed by a new connect attempt.
C20_ReconnectsIndefinitely ==
    /\ [](conn \in {"connecting", "connected", "backoff"})
    /\ [][ /\ conn = "connected" /\ conn' # "connected" => conn' = "backoff"
           /\ conn = "connecting" /\ conn' # "connecting" =>
                    conn' \in {"connected", "backoff"}
           /\ conn = "backoff" /\ conn' # "backoff" => conn' = "connecting"
         ]_vars
    /\ conn = "backoff" ~> conn = "connecting"

\* The relay is in its backoff after it had a connection that delivered a
\* closed candle.
C20_Witness ==
    /\ conn = "backoff"
    /\ received.form = "kline"
    /\ store[<<"BTCUSDT", "15m">>] # <<>>

IsPrefix(a, b) == Len(a) <= Len(b) /\ \A i \in 1..Len(a) : b[i] = a[i]

-----------------------------------------------------------------------------
(* Claims about the orchestrator *)

StepRegistered(reg, step) == step.agent_id \in DOMAIN reg
StepRaises(reg, step) ==
    /\ StepRegistered(reg, step)
    /\ process(reg[step.agent_id], step.input_data) = Raised
StepSucceeds(reg, step) ==
    /\ StepRegistered(reg, step)
    /\ process(reg[step.agent_id], step.input_data) # Raised

LastOf(S) == CHOOSE j \in S : \A k \in S : k <= j

\* The steps of the workflow that name agent_id and whose call returns.
SucceedingSteps(reg, steps, agent_id) ==
    {j \in 1..Len(steps) : steps[j].agent_id = agent_id /\ StepSucceeds(reg, steps[j])}

\* execute_workflow returns in this step.
WorkflowReturns == orch.pc = "running" /\ orch'.pc = "returned"

\* The loop is at a step (its index is within the list).
AtStep == orch.pc = "running" /\ orch.i <= Len(orch.steps)

\* C22: execute_workflow continues past a step whose agent raises: the
\* exception never leaves execute_workflow, the loop moves to the next step
\* with the results untouched, every step of a registered agent is called,
\* and at the return the results hold, for each id, the value of the last
\* step of that id whose call returned, and no entry for an id none of whose
\* calls returned.
C22_ExceptionIsolated ==
    /\ [](orch.pc \in {"idle", "running", "returned"})
    /\ [][ AtStep /\ StepRaises(agents, orch.steps[orch.i]) =>
             /\ orch'.pc = "running"
             /\ orch'.i = orch.i + 1
             /\ orch'.results = orch.results ]_vars
    /\ [][ WorkflowReturns =>
             /\ Len(orch'.calls) =
                  Cardinality({j \in 1..Len(orch.steps) :
                                 StepRegistered(agents, orch.steps[j])})
             /\ \A id \in StepIds :
                  LET succ == SucceedingSteps(agents, orch.steps, id)
                  IN  IF succ = {} THEN id \notin DOMAIN orch'.results
                      ELSE /\ id \in DOMAIN orch'.results
                           /\ orch'.results[id] =
                                process(agents[id],
                                        orch.steps[LastOf(succ)].input_data) ]_vars

\* A workflow has returned whose first call raised and whose second call,
\* of another agent, returned and is in the results alone.
C22_Witness ==
    /\ orch.pc = "returned"
    /\ Len(orch.calls) = 2
    /\ process(orch.calls[1][1], orch.calls[1][2]) = Raised
    /\ process(orch.calls[2][1], orch.calls[2][2]) # Raised
    /\ DOMAIN orch.results = {orch.calls[2][1].agent_id}
    /\ orch.calls[1][1].agent_id # orch.calls[2][1].agent_id

\* C22 as stated: at the return the results have no entry for any agent that
\* raised in a step of the workflow.
C22_NoEntryForAgentThatRaised ==
    [][ WorkflowReturns =>
          \A j \in 1..Len(orch.steps) :
              StepRaises(agents, orch.steps[j]) =>
                  orch.steps[j].agent_id \notin DOMAIN orch'.results ]_vars

\* C23: a step naming an id that is not registered is skipped: the loop moves
\* on without a process call and without touching the results, the returned
\* results have no key for an unregistered id, and the calls made are exactly
\* those of the other steps, in their order.
RegisteredSteps(reg, steps) ==
    SelectSeq(steps, LAMBDA step : StepRegistered(reg, step))

C23_UnregisteredStepSkipped ==
    /\ [][ AtStep /\ ~StepRegistered(agents, orch.steps[orch.i]) =>
             /\ orch'.pc = "running"
             /\ orch'.i = orch.i + 1
             /\ orch'.calls = orch.calls
             /\ orch'.results = orch.results ]_vars
    /\ [][ WorkflowReturns =>
             /\ \A id \in StepIds \ DOMAIN agents : id \notin DOMAIN orch'.results
             /\ LET ran == RegisteredSteps(agents, orch.steps)
                IN  /\ Len(orch'.calls) = Len(ran)
                    /\ \A j \in 1..Len(ran) :
                         orch'.calls[j] = <<agents[ran[j].agent_id], ran[j].input_data>> ]_vars

\* A workflow has returned whose first step named an unregistered id and
\* whose second step was run and stored.
C23_Witness ==
    /\ orch.pc = "returned"
    /\ Len(orch.steps) = 2
    /\ orch.steps[1].agent_id \notin DOMAIN agents
    /\ Len(orch.calls) = 1
    /\ orch.calls[1][1].agent_id = orch.steps[2].agent_id
    /\ DOMAIN orch.results = {orch.steps[2].agent_id}

\* Every step of the workflow names a registered agent whose call returns.
AllStepsSucceed(reg, steps) ==
    \A j \in 1..Len(steps) : StepSucceeds(reg, steps[j])

\* The steps of the workflow that name agent_id.
StepsOf(steps, agent_id) == {j \in 1..Len(steps) : steps[j].agent_id = agent_id}

\* C24: execute_workflow awaits the agents of its steps in list order, one
\* per loop iteration, each step's agent once with that step's input_data;
\* when all steps succeed the returned map has exactly the agent_ids of the
\* steps as keys and gives each the value returned by the last step naming it.
C24_StepsRunInOrder ==
    /\ [][ AtStep /\ StepRegistered(agents, orch.steps[orch.i]) =>
             /\ orch'.i = orch.i + 1
             /\ orch'.calls =
                  Append(orch.calls, <<agents[orch.steps[orch.i].agent_id],
                                       orch.steps[orch.i].input_data>>) ]_vars
    /\ [](orch.pc = "running" => Len(orch.calls) < orch.i)
    /\ [][ WorkflowReturns /\ AllStepsSucceed(agents, orch.steps) =>
             /\ Len(orch'.calls) = Len(orch.steps)
             /\ \A j \in 1..Len(orch.steps) :
                  orch'.calls[j] = <<agents[orch.steps[j].agent_id],
                                     orch.steps[j].input_data>>
             /\ DOMAIN orch'.results = {orch.steps[j].agent_id : j \in 1..Len(orch.steps)}
             /\ \A id \in DOMAIN orch'.results :
                  orch'.results[id] =
                      process(agents[id],
                              orch.steps[LastOf(StepsOf(orch.steps, id))].input_data) ]_vars

\* A workflow of two steps of two agents has returned with both values.
C24_Witness ==
    /\ orch.pc = "returned"
    /\ Len(orch.steps) = 2
    /\ Len(orch.calls) = 2
    /\ orch.calls[1][1].agent_id = "Agent1"
    /\ orch.calls[2][1].agent_id = "Agent2"
    /\ DOMAIN orch.results = {"Agent1", "Agent2"}
    /\ \A j \in 1..2 :
         orch.results[orch.calls[j][1].agent_id] =
             process(orch.calls[j][1], orch.calls[j][2])

\* C24 as stated: when all steps succeed the returned map gives every step's
\* agent_id the value that step's process call returned.
C24_EveryStepsValueReturned ==
    [][ WorkflowReturns /\ AllStepsSucceed(agents, orch.steps) =>
          \A j \in 1..Len(orch.steps) :
              /\ orch.steps[j].agent_id \in DOMAIN orch'.results
              /\ orch'.results[orch.steps[j].agent_id] =
                   process(agents[orch.steps[j].agent_id],
                           orch.steps[j].input_data) ]_vars

\* register_agent is called in this step.
Registers == last' # last /\ last'.op = "register_agent"

\* C25: after register_agent(a) the registry answers get_agent(a.agent_id)
\* with a, also when the id was taken by another agent; every other id keeps
\* its agent; an id enters the registry only by being registered, so get_agent
\* of an id never registered returns None; and every get_agent call returns
\* what the registry holds for the id.
C25_RegistryLookup ==
    /\ [][ Registers =>
             /\ get_agent(agents', last'.arg.agent_id) = last'.arg
             /\ \A id \in StepIds \ {last'.arg.agent_id} :
                  get_agent(agents', id) = get_agent(agents, id) ]_vars
    /\ [][ ~Registers => agents' = agents ]_vars
    /\ [](last.op = "get_agent" =>
            last.ret = IF last.arg.agent_id \in DOMAIN agents
                           THEN agents[last.arg.agent_id] ELSE NoAgent)
    /\ [](get_agent(agents, "NonExistentAgent") = NoAgent)
    /\ [](last.op = "register_agent" =>
            get_agent(agents, last.arg.agent_id) = last.arg)

\* Agent1 was registered twice with different agents, the second is the one
\* the registry holds, and a lookup of Agent2, registered earlier, has just
\* returned that agent.
C25_Witness ==
    /\ last.op = "get_agent"
    /\ last.arg.agent_id = "Agent2"
    /\ last.ret = Agent("Agent2", "steady")
    /\ get_agent(agents, "Agent1") = Agent("Agent1", "fragile")
    /\ orch.pc = "returned"
    /\ Len(orch.calls) = 1
    /\ orch.calls[1][1] = Agent("Agent1", "steady")

-----------------------------------------------------------------------------
(* Properties of the end of a backtest (SpecBacktest) *)

\* The loop is over and the final report is made in this step.
Finishes == bt.pc = "loop" /\ bt'.pc = "done"

\* C26: the final value of a finished run is the cash when the position is
\* OUT and asset_held times the 15m close of the last aligned row when it is
\* IN; making the report sells nothing: it appends no trade and leaves cash,
\* asset_held and position as the loop left them.
C26_FinalValuation ==
    /\ [](bt.pc = "done" =>
            /\ bt.portfolio.position = "OUT" =>
                 bt.report.final_value = bt.portfolio.cash
            /\ bt.portfolio.position = "IN" =>
                 /\ aligned_df # <<>>
                 /\ bt.report.final_value =
                      FracMul(bt.portfolio.asset_held,
                              aligned_df[Len(aligned_df)].r15m.close))
    /\ [][ Finishes => bt'.portfolio = bt.portfolio ]_vars

\* A run bought 100 at 10 with its 1000 and ended with the position open at
\* a last close of 12: it reports 1200, holds 100 and no cash, one trade.
C26_Witness ==
    /\ bt.pc = "done"
    /\ bt.report.status = "finished"
    /\ bt.portfolio.position = "IN"
    /\ bt.portfolio.asset_held = <<100, 1>>
    /\ bt.portfolio.cash = FracZero
    /\ Len(bt.portfolio.trades) = 1
    /\ aligned_df[Len(aligned_df)].r15m.close = 12
    /\ bt.report.final_value = <<1200, 1>>
    /\ bt.report.total_trades = 1

\* Both runs are in or past the loop.
BothRunning == bt.pc \in {"loop", "done"} /\ replay.pc \in {"loop", "done"}

-----------------------------------------------------------------------------
(* Properties of the relay over several symbols (SpecRelaySymbols) *)

\* The handler has taken a well-formed kline message that it did not ignore:
\* the event of a closed candle.
ClosedEventHandled ==
    Handled /\ received'.form = "kline" /\ relay'.log # "ignored"

\* C28: every closed-candle event the relay receives for a subscribed symbol
\* and timeframe, several symbols on one timeframe included, is merged and
\* committed: when the handler returns, the symbol's series holds the event's
\* row.
C28_ClosedEventStored ==
    [][ /\ ClosedEventHandled => relay'.pc = "merged"
        /\ relay.pc = "merged" /\ relay'.pc = "idle" =>
             RowsAt(store'[relay.series], relay.pending.row.open_time)
                 = <<relay.pending.row>> ]_vars

-----------------------------------------------------------------------------
(* Properties of the backfill watermark over successive cycles
   (SpecBackfillResume) *)

\* The newest open_time a table holds.
LastOpenTime(tbl) ==
    CHOOSE t \in {r.open_time : r \in Rows(tbl)} :
        \A r \in Rows(tbl) : r.open_time <= t

\* C29: within one series sync start_time begins at the newest stored
\* open_time + 1 when the series has rows and at now minus the backfill
\* horizon otherwise; inside the page loop it changes only at the commit of a
\* page, to the open_time of the page's last row + 1, when every row of the
\* page is stored; pages hold candles at or after the requested start, and
\* from one fetch to the next start_time strictly increases.
C29_WatermarkAdvances ==
    [][ /\ bf.pc = "watermark" /\ bf'.pc = "fetch" =>
             bf'.start_time =
                 IF store[BfSeries] # <<>> THEN LastOpenTime(store[BfSeries]) + 1
                 ELSE IF now >= BackfillCandles THEN now - BackfillCandles
                 ELSE 0
        /\ InPageLoop(bf) /\ InPageLoop(bf') /\ bf'.start_time # bf.start_time =>
             /\ bf.pc = "commit"
             /\ bf'.pc = "fetch"
             /\ bf'.start_time = bf.page[Len(bf.page)].open_time + 1
             /\ Rows(bf.page) \subseteq Rows(store'[BfSeries])
        /\ bf.pc = "fetch" /\ bf'.pc = "merge" =>
             \A r \in Rows(bf'.page) : r.open_time >= bf.start_time
        /\ bf.pc = "commit" /\ bf'.pc = "fetch" =>
             bf'.start_time > bf.start_time
      ]_vars

\* A later cycle is at the 15m series, which holds the one candle an earlier
\* cycle stored, and requests the candles after it; the 1h series, stored in
\* that cycle, has its row.
C29_Witness ==
    /\ bf.pc = "fetch"
    /\ bf.tf = 1
    /\ Len(store[<<"BTCUSDT", "15m">>]) = 1
    /\ bf.start_time = store[<<"BTCUSDT", "15m">>][1].open_time + 1
    /\ store[<<"BTCUSDT", "1h">>] # <<>>
    /\ bf.start_time > now - BackfillCandles

-----------------------------------------------------------------------------
(* Properties of the supertrend recurrence (SpecTrendTail) *)

\* Row i closes above the stored upper band, or below the stored lower band,
\* of the row before it.
CrossesUp(i) == st[i].close > st[i - 1].upper_band
CrossesDown(i) == st[i].close < st[i - 1].lower_band

\* C31: the first row is in an uptrend; every later row is up when its close
\* is above the stored upper band of the row before, else down when it is
\* below the stored lower band of the row before, else as the row before; the
\* supertrend of a row is its lower band when up and its upper band when
\* down, and the direction column is 1 or -1 accordingly.
C31_DirectionRecurrence ==
    /\ st # <<>> => st[1].in_uptrend
    /\ \A i \in 2..Len(st) :
         st[i].in_uptrend =
            IF CrossesUp(i) THEN TRUE
            ELSE IF CrossesDown(i) THEN FALSE
            ELSE st[i - 1].in_uptrend
    /\ \A i \in 1..Len(st) :
         /\ st[i].close = Scale * df[i].close
         /\ st[i].supertrend =
               IF st[i].in_uptrend THEN st[i].lower_band ELSE st[i].upper_band
         /\ st[i].supertrend_direction = IF st[i].in_uptrend THEN 1 ELSE 0 - 1

\* A series in a downtrend whose upper band was held down at the row that
\* completes the ATR window, and whose next row closes above that stored band
\* though below the band first computed: the direction turns up.
C31_Witness ==
    /\ Len(st) = AtrPeriod + 1
    /\ ~st[AtrPeriod].in_uptrend
    /\ st[AtrPeriod].upper_band < BasicUpper(df, AtrPeriod)
    /\ st[AtrPeriod + 1].close > st[AtrPeriod].upper_band
    /\ st[AtrPeriod + 1].close < BasicUpper(df, AtrPeriod)
    /\ st[AtrPeriod + 1].in_uptrend
    /\ st[AtrPeriod + 1].supertrend = st[AtrPeriod + 1].lower_band

\* Row i is a carry-over row: its close crosses neither stored band of the
\* row before.
CarryOver(i) == ~CrossesUp(i) /\ ~CrossesDown(i)

\* C32: at a carry-over row the direction is the direction of the row before
\* and the active band only tightens: the lower band does not fall while the
\* direction is up, the upper band does not rise while it is down.
C32_CarryOverTightens ==
    \A i \in 2..Len(st) :
        CarryOver(i) =>
            /\ st[i].in_uptrend = st[i - 1].in_uptrend
            /\ st[i].in_uptrend => st[i].lower_band >= st[i - 1].lower_band
            /\ ~st[i].in_uptrend => st[i].upper_band <= st[i - 1].upper_band

\* A series in a downtrend with two carry-over rows past the ATR window whose
\* upper bands, first computed above the previous one, were held at it.
C32_Witness ==
    /\ Len(st) = AtrPeriod + 1
    /\ \A i \in {AtrPeriod, AtrPeriod + 1} :
         /\ CarryOver(i)
         /\ ~st[i].in_uptrend
         /\ BasicUpper(df, i) > st[i - 1].upper_band
         /\ st[i].upper_band = st[i - 1].upper_band

-----------------------------------------------------------------------------
(* Properties of the alignment (SpecBacktest) *)

\* The rows of a timeframe's prepared frame with every indicator defined.
Eligible(tf) == {row \in Rows(kline_data_full[tf]) : ~HasNaN(row)}

\* The eligible rows of a timeframe at or before t.
EligibleBy(tf, t) == {row \in Eligible(tf) : row.open_time <= t}

\* The frames have been aligned.
Aligned == bt.pc \in {"loop", "done"}

\* C33: the 1h and the 4h row an aligned row is paired with are eligible rows
\* of their series at or before the base timestamp t, and no eligible row of
\* the series lies after the paired row and at or before t.
C33_MostRecentEligible ==
    \A i \in 1..Len(aligned_df) :
        LET t == aligned_df[i].timestamp
        IN  /\ aligned_df[i].r1h \in EligibleBy("1h", t)
            /\ aligned_df[i].r4h \in EligibleBy("4h", t)
            /\ \A row \in EligibleBy("1h", t) :
                 row.open_time <= aligned_df[i].r1h.open_time
            /\ \A row \in EligibleBy("4h", t) :
                 row.open_time <= aligned_df[i].r4h.open_time

\* The base row of 17 is paired with the 1h row of 16, not the one of 12, and
\* with the 4h row of 0, the 4h row of 16 being in its warm-up.
C33_Witness ==
    /\ Aligned
    /\ Len(kline_data_full["1h"]) = 2
    /\ Len(kline_data_full["4h"]) = 2
    /\ HasNaN(kline_data_full["4h"][2])
    /\ \E i \in 1..Len(aligned_df) :
         /\ aligned_df[i].timestamp = 17
         /\ aligned_df[i].r1h.open_time = 16
         /\ aligned_df[i].r4h.open_time = 0

\* C34: the aligned rows are rows of the 15m series in ascending order, each
\* base row at most once, each with a 1h and a 4h partner; a base row is in
\* the aligned frame exactly when it is eligible itself and both coarser
\* series have an eligible row at or before it, so the base rows before the
\* first eligible row of a coarser series are dropped.
C34_AlignedSubsequence ==
    Aligned =>
        /\ \A i \in 1..Len(aligned_df) :
             /\ aligned_df[i].r15m \in Rows(kline_data_full["15m"])
             /\ aligned_df[i].timestamp = aligned_df[i].r15m.open_time
             /\ aligned_df[i].r1h # NoRow
             /\ aligned_df[i].r4h # NoRow
        /\ \A i, j \in 1..Len(aligned_df) :
             i < j => aligned_df[i].timestamp < aligned_df[j].timestamp
        /\ \A b \in Rows(kline_data_full["15m"]) :
             (\E i \in 1..Len(aligned_df) : aligned_df[i].r15m = b)
                <=> /\ ~HasNaN(b)
                    /\ EligibleBy("1h", b.open_time) # {}
                    /\ EligibleBy("4h", b.open_time) # {}

\* The 1h series starts at 16: the base row of 15 is dropped, the rows of 16
\* and 17 are aligned in that order.
C34_Witness ==
    /\ Aligned
    /\ Len(kline_data_full["15m"]) = 3
    /\ \A b \in Rows(kline_data_full["15m"]) : ~HasNaN(b)
    /\ Eligible("1h") # {}
    /\ \A row \in Eligible("1h") : row.open_time = 16
    /\ Len(aligned_df) = 2
    /\ aligned_df[1].timestamp = 16
    /\ aligned_df[2].timestamp = 17

-----------------------------------------------------------------------------
(* Properties of the trading loop (SpecBacktest) *)

\* The signal of the row just processed allows no trade in the position held
\* before it.
NoTradeAllowed ==
    \/ bt'.signal = "HOLD"
    \/ bt'.signal = "BUY" /\ bt.portfolio.position = "IN"
    \/ bt'.signal = "SELL" /\ bt.portfolio.position = "OUT"

\* C35: a row whose signal is HOLD, a BUY while the position is IN and a SELL
\* while the position is OUT leave cash, asset_held, position and the trade
\* log as they were.
C35_NoTransition ==
    [][ Simulated /\ NoTradeAllowed =>
            /\ bt'.portfolio.cash = bt.portfolio.cash
            /\ bt'.portfolio.asset_held = bt.portfolio.asset_held
            /\ bt'.portfolio.position = bt.portfolio.position
            /\ bt'.portfolio.trades = bt.portfolio.trades ]_vars

\* A run that bought has just passed a row whose signal was BUY again: it
\* holds what it held, with its one trade.
C35_Witness ==
    /\ bt.pc = "loop"
    /\ bt.i = 3
    /\ bt.signal = "BUY"
    /\ bt.portfolio.position = "IN"
    /\ Len(bt.portfolio.trades) = 1
    /\ bt.portfolio.trades[1].time = aligned_df[1].timestamp
    /\ starting_capital = 1000

\* The trade log alternates BUY, SELL, BUY, ... from a BUY, and the position
\* is IN exactly when the log's length is odd.
Alternates(pf) ==
    /\ \A k \in 1..Len(pf.trades) :
         pf.trades[k].type = IF k % 2 = 1 THEN "BUY" ELSE "SELL"
    /\ pf.position = "IN" <=> Len(pf.trades) % 2 = 1
    /\ pf.position \in {"IN", "OUT"}

\* C36: after every step of a run the trade log alternates BUY, SELL, BUY,
\* ... beginning with a BUY and the position is IN exactly when the number of
\* trades is odd; with a positive starting capital that is exactly when
\* asset_held > 0.
C36_TradesAlternate ==
    bt.pc \in {"loop", "done"} =>
        /\ Alternates(bt.portfolio)
        /\ starting_capital > 0 =>
             (bt.portfolio.position = "IN" <=> FracPositive(bt.portfolio.asset_held))

\* Two rows were processed and both traded: a BUY, then a SELL; the run is
\* out of the market with no asset.
C36_Witness ==
    /\ bt.pc = "loop"
    /\ bt.i = 3
    /\ Len(bt.portfolio.trades) = 2
    /\ bt.portfolio.trades[1].type = "BUY"
    /\ bt.portfolio.trades[2].type = "SELL"
    /\ bt.portfolio.position = "OUT"
    /\ bt.portfolio.asset_held = FracZero
    /\ starting_capital > 0

\* C36 as stated: the position is IN exactly when the number of trades is
\* odd and exactly when asset_held > 0, whatever the starting capital.
C36_InExactlyWhenAssetHeld ==
    bt.pc \in {"loop", "done"} =>
        /\ Alternates(bt.portfolio)
        /\ bt.portfolio.position = "IN" <=> FracPositive(bt.portfolio.asset_held)

\* C37: the signal store is first-writer-wins per key: a cycle leaves every
\* stored row as it is, kind included, and adds rows only for keys that had
\* no row, whatever kind it decided for a stored key.
C37_FirstWriterWins ==
    [][ /\ Len(signals') >= Len(signals)
        /\ \A i \in 1..Len(signals) : signals'[i] = signals[i]
        /\ \A j \in (Len(signals) + 1)..Len(signals') :
             ~ExistingSignal(signals, signals'[j].symbol, signals'[j].strategy,
                             signals'[j].timeframe, signals'[j].kline_open_time) ]_vars

\* A cycle decided SELL for a candle whose BUY is stored: nothing was added
\* and the only row of the key is the BUY.
C37_Witness ==
    \E s \in SymbolSet :
        /\ s \in cycle.decided
        /\ cycle.kinds[s] = "SELL"
        /\ cycle.added = 0
        /\ \E i \in 1..Len(signals) :
             /\ signals[i].symbol = s
             /\ signals[i].kline_open_time = latest_open[s]
             /\ signals[i].signal = "BUY"
        /\ \A i \in 1..Len(signals) :
             signals[i].symbol = s /\ signals[i].kline_open_time = latest_open[s]
                 => signals[i].signal = "BUY"

\* C38: the backfill never changes a stored candle and inserts only candles
\* newer than every stored one of the series, so at no step of a cycle is a
\* candle at or below the newest open_time stored when the cycle read its
\* watermark inserted or changed; while a page is in work its rows are all at
\* or after start_time, which is beyond that newest open_time. A candle
\* stored while still open keeps its provisional values.
C38_StoredCandlesUntouched ==
    /\ [][ \A k \in SeriesSet :
             /\ \A r \in Rows(store[k]) : r \in Rows(store'[k])
             /\ \A r \in Rows(store'[k]) \ Rows(store[k]) :
                  store[k] # <<>> => r.open_time > LastOpenTime(store[k]) ]_vars
    /\ [](bf.pc \in {"merge", "commit", "except"} =>
            \A r \in Rows(bf.page) :
                /\ r.open_time >= bf.start_time
                /\ ~HasKey(store[BfSeries], r.open_time))

\* A cycle stored a 15m candle while it was open; it has closed, a later
\* cycle has stored the candle after it and returned, and the first candle's
\* row still holds the provisional values, not the exchange's final ones.
C38_Witness ==
    \E t \in 0..MaxNow :
        /\ KlineRow(t, 1) \in Rows(store[<<"BTCUSDT", "15m">>])
        /\ CandleClosed("15m", t, now)
        /\ ExchangeKline("15m", t, now) # KlineRow(t, 1)
        /\ HasKey(store[<<"BTCUSDT", "15m">>], t + 1)
        /\ bf.pc = "finished"

-----------------------------------------------------------------------------
(* Undefined indicator values in the latest rows (SpecStrategy) *)

\* One of the values the decision rule compares is NaN: an EMA of the 4h or
\* the 1h row, or the RSI, the money flow or the VWAP approximation of the
\* 15m row.
ReadsUndefined(lc) ==
    \/ \E tf \in {"4h", "1h"} : NaN \in {lc[tf].ema9, lc[tf].ema20, lc[tf].ema50}
    \/ NaN \in {lc["15m"].rsi14, lc["15m"].volume_avg20, lc["15m"].vwap_approx}

\* C39: when a value the decision rule reads on the latest rows is undefined,
\* get_signal returns (HOLD, None, None), and the symbol's evaluation stores
\* no signal.
C39_UndefinedIndicatorHolds ==
    (AllPresent /\ ReadsUndefined(latest_candles)) =>
        /\ Called => decision = Hold
        /\ \A s \in SymbolSet, inserted \in BOOLEAN :
             generate_signals_for_symbol(<<>>, s, latest_candles, inserted) = <<>>

\* Every condition of the BUY block holds except that the 4h row's EMA50 is
\* undefined (a 4h series of fewer than 50 candles); the decision is HOLD.
C39_Witness ==
    /\ Called /\ AllPresent
    /\ latest_candles["4h"].ema9 = 3
    /\ latest_candles["4h"].ema20 = 2
    /\ latest_candles["4h"].ema50 = NaN
    /\ BuyConditions(latest_candles["1h"], latest_candles["1h"],
                     latest_candles["15m"])
    /\ latest_candles["4h"].supertrend_direction = 1
    /\ decision = Hold

====
